---- MODULE Spec2Model ----
(***************************************************************************)
(* Availability Coordination Engine of JGA-Jan.                            *)
(*                                                                         *)
(* Server side: the Identity Store (table people) and the Availability     *)
(* Store (table availability) of src/db.ts, and the HTTP handlers of       *)
(* src/server.ts.  src/api/index.ts holds the same handlers for the        *)
(* availability and its own handler of GET /api/people.                    *)
(* Client side: the React component of src/src/App.tsx: its state, its     *)
(* gesture handlers and the continuations of its network calls.            *)
(*                                                                         *)
(* Granularity.  JavaScript runs every handler to completion up to its     *)
(* next await, so one action is one such run.  A server handler issues one *)
(* SQL statement per await, so one action is one statement.  React commits *)
(* a state change before it dispatches the next event, so a handler reads  *)
(* the state left by the previous action.                                  *)
(*                                                                         *)
(* personalUnavailability is a string[] in the source.  The code only      *)
(* tests membership (includes), removes every copy (filter) and appends,   *)
(* so the list is modelled by the set of its elements.                     *)
(*                                                                         *)
(* Specifications.  Spec is one client and the server with every step      *)
(* there is.  Its state space is the product of the store, the local       *)
(* state, the clock and the exchanges in flight, so the properties are     *)
(* checked under parts of it, each made of the same actions:               *)
(*   SpecStore    the store under requests of any clients;                 *)
(*   SpecToggle   a returning participant toggling dates, with the clock,  *)
(*                lost exchanges and an unreachable store;                 *)
(*   SpecDrag     a returning participant dragging and clicking, over any  *)
(*                set of days marked before;                               *)
(*   SpecSession  logging in and out and the admin view, with the          *)
(*                gestures made in every state of the session.             *)
(*   SpecFail     a returning participant clicking and dragging until a    *)
(*                persistence request fails, and what follows;             *)
(*   SpecLogin    the Identity Store under logins and reads of any         *)
(*                clients, with the login of the browser;                  *)
(*   SpecRemoval  both stores under marks, removals, logins and reads of   *)
(*                any clients;                                             *)
(*   SpecAdmin    the admin view removing participants while another       *)
(*                client writes marks for them;                            *)
(*   SpecConflict the highlight of the admin calendar over any lists of    *)
(*                people and marks;                                        *)
(*   SpecAdminView the admin view entered, left and entered again, with    *)
(*                removals and a server that answers everything;           *)
(*   SpecClick    a returning participant clicking cells of the month      *)
(*                view: mousedown, mouseup and click;                      *)
(*   SpecQuiet    a returning participant alone with a server that         *)
(*                answers everything, the requests applied in order;       *)
(*   SpecInit     processes that start, initialise the database and end,   *)
(*                under removals, logins and reads of any clients.         *)
(* In every specification but SpecInit the process has initialised the     *)
(* database before (dbInitPromise is resolved).                            *)
(***************************************************************************)
EXTENDS Integers, Sequences, FiniteSets, Bags, TLC

VARIABLES
  now,                      \* Date.now(), in milliseconds
  ui,                       \* "start" before the first render, "live", or "crashed"
  people,                   \* table people: set of rows [id, name, passcode]
  availability,             \* table availability: bag of rows <<person_id, date>>
  dbInitPromise,            \* server.ts:191: "null", "pending" or "resolved"
  net,                      \* bag of HTTP exchanges in flight
  mode,                     \* App.tsx:25
  currentUser,              \* App.tsx:26 (the id of the Person, or NoUser)
  personalUnavailability,   \* App.tsx:34
  drag,                     \* App.tsx:54
  hasMoved,                 \* App.tsx:55
  lastToggle,               \* App.tsx:136
  savedUser,                \* localStorage item jga_user
  isLoggingIn,              \* App.tsx:40
  loginError,               \* App.tsx:39
  peopleList,               \* App.tsx:27 (state people)
  allUnavailability,        \* App.tsx:35
  viewConfig,               \* App.tsx:42 (conflictMode; the other fields are presentation)
  batches,                  \* finalizeDrag runs suspended in Promise.all
  ev,                       \* history: the step taken last and what it was given
  hist                      \* history: the last toggle call and the round trip under way

vars == <<now, ui, people, availability, dbInitPromise, net, mode, currentUser,
          personalUnavailability, drag, hasMoved, lastToggle, savedUser,
          isLoggingIn, loginError, peopleList, allUnavailability, viewConfig,
          batches, ev, hist>>

serverVars == <<people, availability, dbInitPromise>>
clientVars == <<ui, mode, currentUser, personalUnavailability, drag, hasMoved,
                lastToggle, savedUser, isLoggingIn, loginError, peopleList,
                allUnavailability, viewConfig, batches>>

(* null of each type.  A date is a pair <<month, day>>, an id a number.    *)
NoDate == <<0, 0>>
NoUser == 0
NoDrag == [start |-> NoDate, end |-> NoDate]
NoToggle == [date |-> NoDate, time |-> 0]
NoError == ""
\* What res.json() gives for an error response: an object, not a list of dates.
ErrorBody == {NoDate}

-----------------------------------------------------------------------------
(* Bounds of the model.                                                    *)

MaxDays == 3          \* calendar days of the window that are modelled
MaxToggleDays == 2    \* days of the window that single toggles are made on
MaxTicks == 2         \* clock readings after the first one
MaxInFlight == 2      \* a step that sends is taken while fewer exchanges are in flight
MaxBatches == 1       \* finalizeDrag runs suspended at a time

-----------------------------------------------------------------------------
(* Calendar days.  A date string 'YYYY-MM-DD' of the year 2026 is the pair *)
(* <<month, day>>; parseISO gives the day of the year and format the       *)
(* string of a day of the year.                                            *)

Year == 2026
FirstDay == 150       \* 2026-05-30, first day of the modelled window
TickMs == 150         \* milliseconds between two clock readings
Epoch == 1000         \* first clock reading

DaysInMonth(m) ==
  CASE m \in {1, 3, 5, 7, 8, 10, 12} -> 31
    [] m \in {4, 6, 9, 11} -> 30
    [] OTHER -> IF (Year % 4 = 0 /\ Year % 100 # 0) \/ Year % 400 = 0 THEN 29 ELSE 28

RECURSIVE DaysBefore(_)
DaysBefore(m) == IF m = 1 THEN 0 ELSE DaysBefore(m - 1) + DaysInMonth(m - 1)

parseISO(s) == DaysBefore(s[1]) + s[2]

format(n) ==
  LET m == CHOOSE k \in 1..12 : DaysBefore(k) < n /\ n <= DaysBefore(k) + DaysInMonth(k)
  IN  <<m, n - DaysBefore(m)>>

\* JavaScript < on two date strings: lexicographic on the zero-padded text.
StrLess(a, b) == a[1] < b[1] \/ (a[1] = b[1] /\ a[2] < b[2])

\* An interval that stops a day short.
eachDayExclusive(s, e) == { format(n) : n \in parseISO(s)..(parseISO(e) - 1) }

\* date-fns eachDayOfInterval, App.tsx:240: every day from s to e, both included.
eachDayOfInterval(s, e) == { format(n) : n \in parseISO(s)..parseISO(e) }

\* The calendar cells of the modelled window, App.tsx:775-792.
Dates == { format(n) : n \in FirstDay..(FirstDay + MaxDays - 1) }
ToggleDates == { format(n) : n \in FirstDay..(FirstDay + MaxToggleDays - 1) }

-----------------------------------------------------------------------------
(* The two tables (db.ts:27-28).  people has PRIMARY KEY (id);             *)
(* availability has PRIMARY KEY (person_id, date) and a FOREIGN KEY from   *)
(* person_id to people (id).  A table is a bag of rows, so that a          *)
(* duplicate row is a state the model can express.                         *)

SEED_PEOPLE ==
  { [id |-> 1, name |-> "Jan", passcode |-> "1234"],
    [id |-> 2, name |-> "Kevin", passcode |-> "1234"] }

SEED_UNAVAILABILITY ==
  { <<1, <<5, 1>>>>, <<1, <<5, 2>>>>, <<1, <<5, 30>>>>, <<1, <<6, 12>>>>,
    <<1, <<7, 17>>>>, <<1, <<8, 14>>>>, <<2, <<5, 30>>>>, <<2, <<6, 25>>>>,
    <<2, <<8, 14>>>>, <<2, <<9, 5>>>> }

SeedIds == { r.id : r \in SEED_PEOPLE }

Rows(table) == BagToSet(table)
Count(table, row) == CopiesIn(row, table)
PeopleIds(ppl) == { r.id : r \in ppl }
DatesOf(table, p) == { r[2] : r \in { x \in Rows(table) : x[1] = p } }

\* The outcome of one SQL statement: whether it raised, and the table after.
Done(table) == [ok |-> TRUE, error |-> "", table |-> table]
Raised(table, e) == [ok |-> FALSE, error |-> e, table |-> table]

PrimaryKeyHeld(table, row) == Count(table, row) > 0
\* A table without the foreign key.
ForeignKeyNone(ppl, row) == TRUE

\* FOREIGN KEY (person_id) REFERENCES people (id), db.ts:28
ForeignKeyHolds(ppl, row) == row[1] \in PeopleIds(ppl)

\* INSERT INTO availability (person_id, date) VALUES ($1, $2): no ON CONFLICT.
SqlInsertPlain(table, ppl, row) ==
  IF PrimaryKeyHeld(table, row) THEN Raised(table, "ConstraintViolation")
  ELSE IF ~ForeignKeyHolds(ppl, row) THEN Raised(table, "ConstraintViolation")
  ELSE Done(table (+) SetToBag({row}))

\* The same statement on a table that has no primary key.
SqlInsertNoKey(table, ppl, row) ==
  IF ~ForeignKeyHolds(ppl, row) THEN Raised(table, "ConstraintViolation")
  ELSE Done(table (+) SetToBag({row}))

\* INSERT INTO availability ... ON CONFLICT DO NOTHING
SqlInsertAvailability(table, ppl, row) ==
  IF PrimaryKeyHeld(table, row) THEN Done(table)
  ELSE IF ~ForeignKeyHolds(ppl, row) THEN Raised(table, "ConstraintViolation")
  ELSE Done(table (+) SetToBag({row}))

\* A DELETE that matches no row.
SqlDeleteNothing(table, row) == Done(table)

\* DELETE FROM availability WHERE person_id = $1: the date is not compared.
SqlDeleteEveryDate(table, row) ==
  Done([r \in { x \in DOMAIN table : x[1] # row[1] } |-> table[r]])

\* DELETE FROM availability WHERE person_id = $1 AND date = $2
SqlDeleteAvailability(table, row) ==
  Done([r \in DOMAIN table \ {row} |-> table[r]])

\* SELECT date FROM availability WHERE person_id = $1
SqlSelectDates(table, p) == DatesOf(table, p)

-----------------------------------------------------------------------------
(* HTTP exchanges in flight.  stage "req": sent, not yet handled by the    *)
(* server; "resp": handled, the response on its way; "fail": the fetch is  *)
(* going to reject (the network lost the request or the response).         *)
(* identities is the Identity data of a response: the JSON objects, each a   *)
(* record of the columns it carries (color, a presentation tag, is left    *)
(* out).  A request carries no credential; auth records, for the           *)
(* properties, the identity its sender was logged in as when it sent it.   *)

Msg(kind, src, pid, date, available) ==
  [kind |-> kind, stage |-> "req", src |-> src, pid |-> pid, date |-> date,
   available |-> available, batch |-> 0, name |-> "", passcode |-> "",
   status |-> 0, error |-> NoError, body |-> {}, identities |-> {},
   auth |-> NoUser]

Response(m, status, error, body) ==
  [m EXCEPT !.stage = "resp", !.status = status, !.error = error, !.body = body]

Failed(m) == [m EXCEPT !.stage = "fail"]

Room(bag) == BagCardinality(bag) < MaxInFlight
\* await ensureDb() with the run done (server.ts:191-201): the handler goes on.
DbReady == dbInitPromise = "resolved"

Send(bag, m) == bag (+) SetToBag({m})
Take(bag, m) == bag (-) SetToBag({m})

-----------------------------------------------------------------------------
(* History kept for the properties that span several steps; the program    *)
(* reads none of it.  call is the last call of toggleDate by a participant *)
(* in the personal view, accepted or not.  trip follows a round trip: it   *)
(* starts at an accepted toggle of a date, made when the local set equals  *)
(* the participant's rows of the store and nothing is in flight; it is     *)
(* "second" after the next accepted toggle, if that is of the same date;   *)
(* applied counts its requests the store has applied in the order they     *)
(* were issued; ok is FALSE once an exchange was lost, refused or applied  *)
(* out of that order, or the local set was replaced by a fetched one.      *)
(* The history is kept by the specifications that start with it on.        *)
(* watch is "none" until a persistence request of the participant fails    *)
(* and "failed" from then on; it is kept by the specifications that start  *)
(* with it at "none".                                                      *)

NoCall == [date |-> NoDate, time |-> 0]
NoTrip == [phase |-> "idle", date |-> NoDate, orig |-> {}, applied |-> 0, ok |-> TRUE]
NoHist == [on |-> FALSE, call |-> NoCall, trip |-> NoTrip, watch |-> "off"]
Tracking(h) == h.trip.phase \in {"first", "second"}

CallLogged(h, dateStr) ==
  IF h.on THEN [h EXCEPT !.call = [date |-> dateStr, time |-> now]] ELSE h

TripToggled(h, dateStr) ==
  IF ~h.on THEN h
  ELSE IF h.trip.phase = "first" /\ h.trip.date = dateStr
  THEN [h EXCEPT !.trip.phase = "second"]
  ELSE IF net = EmptyBag
          /\ personalUnavailability = DatesOf(availability, currentUser)
  THEN [h EXCEPT !.trip = [phase |-> "first", date |-> dateStr,
                           orig |-> personalUnavailability, applied |-> 0, ok |-> TRUE]]
  ELSE [h EXCEPT !.trip = NoTrip]

TripEnded(h) == [h EXCEPT !.trip = NoTrip]

TripSpoilt(h) == IF Tracking(h) THEN [h EXCEPT !.trip.ok = FALSE] ELSE h

TripServed(h, m, reachable) ==
  IF ~(Tracking(h) /\ m.date = h.trip.date /\ m.pid = currentUser) THEN h
  ELSE LET first == h.trip.date \in h.trip.orig
       IN  IF reachable /\ h.trip.applied = 0 /\ m.available = first
           THEN [h EXCEPT !.trip.applied = 1]
           ELSE IF reachable /\ h.trip.applied = 1 /\ m.available = ~first
           THEN [h EXCEPT !.trip.applied = 2]
           ELSE TripSpoilt(h)

TripLost(h) == TripSpoilt(h)

FailureSeen(h, m) ==
  IF h.watch = "none" /\ m.kind = "postAvail" /\ m.src \in {"toggle", "drag"}
  THEN [h EXCEPT !.watch = "failed"]
  ELSE h

-----------------------------------------------------------------------------
(* Server: app.post("/api/availability/:personId"), server.ts:297-312.     *)
(* reachable = FALSE is the run in which ensureDb() or the statement       *)
(* throws because the store cannot be reached; the catch answers 500.      *)

postAvailability(table, ppl, m, reachable) ==
  LET row == <<m.pid, m.date>>
      r == IF ~reachable THEN Raised(table, "StoreUnavailable")
           ELSE IF m.available THEN SqlDeleteAvailability(table, row)
           ELSE SqlInsertAvailability(table, ppl, row)
  IN  [table |-> r.table,
       resp |-> IF r.ok THEN Response(m, 200, "", {})
                ELSE Response(m, 500, r.error, {})]

ServePostAvailability(m, reachable) ==
  /\ m.kind = "postAvail" /\ m.stage = "req"
  /\ DbReady
  /\ LET out == postAvailability(availability, people, m, reachable)
     IN  /\ availability' = out.table
         /\ net' = Send(Take(net, m), out.resp)
         /\ ev' = [op |-> "postAvailability", resp |-> out.resp,
                   had |-> Count(availability, <<m.pid, m.date>>)]
  /\ hist' = IF reachable THEN TripServed(hist, m, reachable)
              ELSE FailureSeen(TripServed(hist, m, reachable), m)
  /\ UNCHANGED <<now, people, dbInitPromise, clientVars>>

\* The network loses a request or a response: the caller's fetch rejects.
NetworkFails(m) ==
  /\ m.stage \in {"req", "resp"}
  /\ net' = Send(Take(net, m), Failed(m))
  /\ ev' = [op |-> "NetworkFails"]
  /\ hist' = FailureSeen(TripLost(hist), m)
  /\ UNCHANGED <<now, serverVars, clientVars>>

-----------------------------------------------------------------------------
(* Initial state: the tables as initDb seeds them (db.ts:37-56), cut to    *)
(* the modelled participants and days; the component before its first      *)
(* render.                                                                 *)

SeedRows == { r \in SEED_UNAVAILABILITY : r[1] \in SeedIds /\ r[2] \in Dates }

InitServer ==
  /\ people = SEED_PEOPLE
  /\ availability = SetToBag(SeedRows)
  /\ dbInitPromise = "resolved"
  /\ net = EmptyBag

\* useState / useRef initial values, App.tsx:25-55 and 136.
InitClient ==
  /\ ui = "start"
  /\ mode = "personal"
  /\ currentUser = NoUser
  /\ personalUnavailability = {}
  /\ drag = NoDrag
  /\ hasMoved = FALSE
  /\ lastToggle = NoToggle
  /\ isLoggingIn = FALSE
  /\ loginError = NoError
  /\ peopleList = {}
  /\ allUnavailability = {}
  /\ viewConfig = [conflictMode |-> "any"]
  /\ batches = {}

-----------------------------------------------------------------------------
(* Server: app.get("/api/availability/:personId"), server.ts:286-295.      *)

\* The SELECT without its WHERE clause.
getAvailabilityOfAll(table, m, reachable) ==
  IF reachable THEN Response(m, 200, NoError, { r[2] : r \in Rows(table) })
  ELSE Response(m, 500, "StoreUnavailable", ErrorBody)

getAvailability(table, m, reachable) ==
  IF reachable THEN Response(m, 200, NoError, SqlSelectDates(table, m.pid))
  ELSE Response(m, 500, "StoreUnavailable", ErrorBody)

ServeGetAvailability(m, reachable) ==
  /\ m.kind = "getAvail" /\ m.stage = "req"
  /\ DbReady
  /\ net' = Send(Take(net, m), getAvailability(availability, m, reachable))
  /\ ev' = [op |-> "getAvailability"]
  /\ UNCHANGED <<now, serverVars, clientVars, hist>>

-----------------------------------------------------------------------------
(* Client.  The calendar and its handlers are rendered in every mode but   *)
(* "admin-login" (App.tsx:308 returns the password form alone).  A render  *)
(* in which personalUnavailability is not a list throws at App.tsx:760 and *)
(* React unmounts the component.                                           *)

DebounceMs == 300

Rendered == ui = "live" /\ mode # "admin-login"

\* The guard without its test of the identity.
PersonalAnyUser == mode = "personal"

\* App.tsx:139, 209, 216, 225: the guard of every gesture handler.
Personal == mode = "personal" /\ currentUser # NoUser

UiAfter(m, pu) == IF ui = "live" /\ m # "admin-login" /\ pu = ErrorBody THEN "crashed" ELSE ui

Tick ==
  /\ now < Epoch + MaxTicks * TickMs
  /\ now' = now + TickMs
  /\ ev' = [op |-> "Tick"]
  /\ UNCHANGED <<serverVars, net, clientVars, hist>>

\* fetchAvailability(userId), App.tsx:69-77: the request it sends.
fetchAvailability(src, userId) == Msg("getAvail", src, userId, NoDate, FALSE)

\* The guard with a window of 30 ms.
DebouncedShort(dateStr) ==
  /\ lastToggle # NoToggle
  /\ lastToggle.date = dateStr
  /\ (now - lastToggle.time) < 30

\* No guard at all.
DebouncedNever(dateStr) == FALSE

\* App.tsx:141: the guard against a second firing of one gesture.
Debounced(dateStr) ==
  /\ lastToggle # NoToggle
  /\ lastToggle.date = dateStr
  /\ (now - lastToggle.time) < DebounceMs

\* An update that only ever adds.
toggleLocalAddOnly(prev, dateStr) == prev \cup {dateStr}

\* App.tsx:149-152: the optimistic update.
toggleLocal(prev, dateStr) ==
  IF dateStr \in prev THEN prev \ {dateStr} ELSE prev \cup {dateStr}

\* The request with the new membership as its flag.
toggleRequestNewState(userId, dateStr, isUnavailable) ==
  [Msg("postAvail", "toggle", userId, dateStr, ~isUnavailable) EXCEPT !.auth = currentUser]

\* App.tsx:146 and 156-160: the request, its flag read from the rendered state.
toggleRequest(userId, dateStr, isUnavailable) ==
  [Msg("postAvail", "toggle", userId, dateStr, isUnavailable) EXCEPT !.auth = currentUser]

\* The body of toggleDate, App.tsx:138-167, up to its await.  It is called by
\* the click handlers (App.tsx:787-792, 882) and by finalizeDrag (App.tsx:235).
toggleDateBody(dateStr) ==
  IF Personal
  THEN IF Debounced(dateStr)
       THEN /\ hist' = CallLogged(hist, dateStr)
            /\ UNCHANGED <<lastToggle, personalUnavailability, net>>
       ELSE /\ Room(net)
            /\ lastToggle' = [date |-> dateStr, time |-> now]
            /\ personalUnavailability' = toggleLocal(personalUnavailability, dateStr)
            /\ net' = Send(net, toggleRequest(currentUser, dateStr,
                                              dateStr \in personalUnavailability))
            /\ hist' = TripToggled(CallLogged(hist, dateStr), dateStr)
  ELSE UNCHANGED <<lastToggle, personalUnavailability, net, hist>>

\* What a call of toggleDate comes to.
toggleKind(dateStr) ==
  IF ~Personal THEN "ignored" ELSE IF Debounced(dateStr) THEN "dropped" ELSE "accepted"

toggleDate(dateStr) ==
  /\ Rendered
  /\ toggleDateBody(dateStr)
  /\ ev' = [op |-> "toggleDate", date |-> dateStr, kind |-> toggleKind(dateStr)]
  /\ UNCHANGED <<now, serverVars, ui, mode, currentUser, drag, hasMoved,
                 savedUser, isLoggingIn, loginError, peopleList, allUnavailability, viewConfig, batches>>

\* onClick of a cell of the month view, App.tsx:787-792.
onClick(dStr) ==
  /\ Rendered
  /\ IF hasMoved
     THEN UNCHANGED <<lastToggle, personalUnavailability, net, hist>>
     ELSE toggleDateBody(dStr)
  /\ ev' = [op |-> "onClick", date |-> dStr,
            kind |-> IF hasMoved THEN "moved" ELSE toggleKind(dStr)]
  /\ UNCHANGED <<now, serverVars, ui, mode, currentUser, drag, hasMoved,
                 savedUser, isLoggingIn, loginError, peopleList, allUnavailability,
                 viewConfig, batches>>

\* App.tsx:208-213
handleDragStart(dateStr) ==
  /\ Rendered
  /\ IF Personal
     THEN drag' = [start |-> dateStr, end |-> dateStr] /\ hasMoved' = FALSE
     ELSE UNCHANGED <<drag, hasMoved>>
  /\ ev' = [op |-> "handleDragStart"]
  /\ UNCHANGED <<now, serverVars, net, ui, mode, currentUser,
                 personalUnavailability, lastToggle, savedUser, isLoggingIn,
                 loginError, peopleList, allUnavailability, viewConfig, batches, hist>>

\* App.tsx:215-222
handleDragEnter(dateStr) ==
  /\ Rendered
  /\ IF drag.start # NoDate /\ Personal
     THEN /\ hasMoved' = IF dateStr # drag.start THEN TRUE ELSE hasMoved
          /\ drag' = [drag EXCEPT !.end = dateStr]
     ELSE UNCHANGED <<drag, hasMoved>>
  /\ ev' = [op |-> "handleDragEnter"]
  /\ UNCHANGED <<now, serverVars, net, ui, mode, currentUser,
                 personalUnavailability, lastToggle, savedUser, isLoggingIn,
                 loginError, peopleList, allUnavailability, viewConfig, batches, hist>>

\* The first anchor taken for the earlier one.
dragLowRaw(d) == d.start

\* App.tsx:226-227: the anchors in order.
dragLow(d) == IF StrLess(d.start, d.end) THEN d.start ELSE d.end
dragHigh(d) == IF StrLess(d.start, d.end) THEN d.end ELSE d.start

\* No drag taken for a click.
isClickNever(d) == FALSE

\* App.tsx:230: a drag that ends on the date it began on.
isClick(d) == dragLow(d) = dragHigh(d)

\* Every date of the range, marked or not.
newDatesUnfiltered(d, pu) == eachDayOfInterval(dragLow(d), dragHigh(d))

\* App.tsx:240-243: the dates of the range that are not marked yet.
newDatesOf(d, pu) == { x \in eachDayOfInterval(dragLow(d), dragHigh(d)) : x \notin pu }

\* App.tsx:249-255: one request per new date, all of one Promise.all.
dragRequest(userId, date, b) ==
  [Msg("postAvail", "drag", userId, date, FALSE) EXCEPT !.batch = b, !.auth = currentUser]

\* App.tsx:243-255: what the range branch does, given the drag and the local set.
rangeOutcome(d, pu, userId, b) ==
  [local |-> pu \cup newDatesOf(d, pu),
   requests |-> SetToBag({ dragRequest(userId, x, b) : x \in newDatesOf(d, pu) })]

FreeBatches ==
  { b \in 1..MaxBatches : b \notin batches /\ \A m \in BagToSet(net) : m.batch # b }

\* What a call of finalizeDrag comes to.
finalizeKind ==
  IF ~(drag.start # NoDate /\ drag.end # NoDate /\ Personal) THEN "ignored"
  ELSE IF isClick(drag) THEN (IF hasMoved THEN "moved" ELSE "click")
  ELSE IF newDatesOf(drag, personalUnavailability) = {} THEN "covered"
  ELSE "range"

\* finalizeDrag, App.tsx:224-259, up to its await.
finalizeDrag ==
  /\ Rendered
  /\ IF drag.start # NoDate /\ drag.end # NoDate /\ Personal
     THEN IF isClick(drag)
          THEN /\ drag' = NoDrag
               /\ IF ~hasMoved
                  THEN toggleDateBody(dragLow(drag))
                  ELSE UNCHANGED <<lastToggle, personalUnavailability, net, hist>>
               /\ UNCHANGED batches
          ELSE IF newDatesOf(drag, personalUnavailability) # {}
          THEN /\ Room(net)
               /\ \E b \in FreeBatches :
                    LET out == rangeOutcome(drag, personalUnavailability, currentUser, b)
                    IN  /\ \A c \in FreeBatches : b <= c
                        /\ personalUnavailability' = out.local
                        /\ net' = net (+) out.requests
                        /\ batches' = batches \cup {b}
               /\ hist' = TripEnded(hist)
               /\ UNCHANGED <<drag, lastToggle>>
          ELSE /\ drag' = NoDrag
               /\ UNCHANGED <<lastToggle, personalUnavailability, net, batches, hist>>
     ELSE /\ drag' = NoDrag
          /\ UNCHANGED <<lastToggle, personalUnavailability, net, batches, hist>>
  /\ ev' = [op |-> "finalizeDrag", kind |-> finalizeKind, date |-> drag.start]
  /\ UNCHANGED <<now, serverVars, ui, mode, currentUser, hasMoved, savedUser,
                 isLoggingIn, loginError, peopleList, allUnavailability, viewConfig>>

\* The fetch of toggleDate settles, App.tsx:155-165: a rejection is caught
\* and answered with fetchAvailability; any response, 200 or 500, is ignored.
toggleSettled(m) ==
  /\ ui = "live"
  /\ m.kind = "postAvail" /\ m.src = "toggle" /\ m.stage \in {"resp", "fail"}
  /\ net' = IF m.stage = "fail"
            THEN Send(Take(net, m), fetchAvailability("refetch", m.pid))
            ELSE Take(net, m)
  /\ ev' = [op |-> "toggleSettled"]
  /\ UNCHANGED <<now, serverVars, clientVars, hist>>

\* One fetch of finalizeDrag's Promise.all settles, App.tsx:249-258.  The
\* first rejection rejects the Promise.all and finalizeDrag ends there; when
\* the last fetch has resolved, finalizeDrag goes on to setDrag (line 258).
dragSettled(m) ==
  /\ ui = "live"
  /\ m.kind = "postAvail" /\ m.src = "drag" /\ m.stage \in {"resp", "fail"}
  /\ net' = Take(net, m)
  /\ LET b == m.batch
         last == \A x \in BagToSet(Take(net, m)) : x.batch # b
     IN  IF b \notin batches
         THEN UNCHANGED <<batches, drag>>
         ELSE IF m.stage = "fail"
         THEN batches' = batches \ {b} /\ UNCHANGED drag
         ELSE IF last
         THEN batches' = batches \ {b} /\ drag' = NoDrag
         ELSE UNCHANGED <<batches, drag>>
  /\ ev' = [op |-> "dragSettled"]
  /\ UNCHANGED <<now, serverVars, ui, mode, currentUser, personalUnavailability,
                 hasMoved, lastToggle, savedUser, isLoggingIn, loginError,
                 peopleList, allUnavailability, viewConfig, hist>>

-----------------------------------------------------------------------------
(* The two effects, App.tsx:80-96 (deps [mode]) and App.tsx:99-109 (deps   *)
(* [mode, currentUser]).  They run after the render that follows a change  *)
(* of their deps, before the next event, so they are part of the action    *)
(* that made the change.                                                   *)

\* fetchPeople, App.tsx:58-67: it fetches only when the mode it closed over is admin.
fetchPeople(src, m) == IF m = "admin" THEN SetToBag({Msg("getPeople", src, NoUser, NoDate, FALSE)})
                       ELSE EmptyBag

\* App.tsx:81-95: what init sends at once, given the saved identity.
initEffect(m, saved) ==
  IF saved # NoUser
  THEN SetToBag({fetchAvailability(IF m = "admin" THEN "initAdmin" ELSE "init", saved)})
  ELSE fetchPeople("init", m)

\* App.tsx:99-109
dataEffect(m, user) ==
  IF m = "personal" /\ user # NoUser THEN SetToBag({fetchAvailability("effect", user)})
  ELSE IF m = "admin"
  THEN fetchPeople("effect", m) (+) SetToBag({Msg("getAll", "effect", NoUser, NoDate, FALSE)})
  ELSE EmptyBag

\* Both effects after a render with a new mode (or the first render).  init's
\* setCurrentUser(JSON.parse(...)) stores a new object, so the second effect
\* runs once more after it.
modeEffects(m, user, saved) ==
  initEffect(m, saved) (+) dataEffect(m, user)
    (+) (IF saved # NoUser THEN dataEffect(m, saved) ELSE EmptyBag)

userAfterInit(user, saved) == IF saved # NoUser THEN saved ELSE user

\* A step that sets the mode to m: the state and the requests that follow.
SetMode(m, user, pu) ==
  IF m = mode
  THEN /\ mode' = m /\ currentUser' = user /\ net' = net
       /\ ui' = UiAfter(m, pu)
  ELSE /\ modeEffects(m, user, savedUser) = EmptyBag \/ Room(net)
       /\ mode' = m
       /\ currentUser' = userAfterInit(user, savedUser)
       /\ net' = net (+) modeEffects(m, user, savedUser)
       /\ ui' = UiAfter(m, pu)

\* The first render and its effects.
mount ==
  /\ ui = "start"
  /\ modeEffects(mode, currentUser, savedUser) = EmptyBag \/ Room(net)
  /\ ui' = "live"
  /\ currentUser' = userAfterInit(currentUser, savedUser)
  /\ net' = net (+) modeEffects(mode, currentUser, savedUser)
  /\ ev' = [op |-> "mount"]
  /\ UNCHANGED <<now, serverVars, mode, personalUnavailability, drag, hasMoved,
                 lastToggle, savedUser, isLoggingIn, loginError, peopleList,
                 allUnavailability, viewConfig, batches, hist>>

\* A fetchAvailability settles, App.tsx:71-76, and its caller goes on:
\* init (App.tsx:92), handleLogin (App.tsx:192-197).
availabilitySettled(m) ==
  /\ ui = "live"
  /\ m.kind = "getAvail" /\ m.stage \in {"resp", "fail"}
  /\ LET pu == IF m.stage = "resp" THEN m.body ELSE personalUnavailability
     IN  /\ personalUnavailability' = pu
         /\ IF m.src = "login"
            THEN /\ \E n \in {Take(net, m)} :
                      IF mode = "personal"
                      THEN net' = n /\ mode' = mode /\ currentUser' = currentUser
                      ELSE /\ modeEffects("personal", currentUser, savedUser) = EmptyBag
                                \/ Room(n)
                           /\ net' = n (+) modeEffects("personal", currentUser, savedUser)
                           /\ mode' = "personal"
                           /\ currentUser' = userAfterInit(currentUser, savedUser)
                 /\ isLoggingIn' = FALSE
                 /\ ui' = IF pu = ErrorBody THEN "crashed" ELSE ui
            ELSE /\ net' = Take(net, m) (+) (IF m.src = "initAdmin" THEN fetchPeople("init", "admin")
                                             ELSE EmptyBag)
                 /\ ui' = UiAfter(mode, pu)
                 /\ UNCHANGED <<mode, currentUser, isLoggingIn>>
  /\ ev' = [op |-> "availabilitySettled"]
  /\ hist' = TripSpoilt(hist)
  /\ UNCHANGED <<now, serverVars, drag, hasMoved, lastToggle, savedUser, loginError,
                 peopleList, allUnavailability, viewConfig, batches>>

\* App.tsx:201-206
handleLogout ==
  /\ Rendered /\ currentUser # NoUser
  /\ savedUser' = NoUser
  /\ personalUnavailability' = {}
  /\ mode' = "personal" /\ currentUser' = NoUser /\ net' = net
  /\ ui' = ui
  /\ ev' = [op |-> "handleLogout"]
  /\ hist' = TripEnded(hist)
  /\ UNCHANGED <<now, serverVars, drag, hasMoved, lastToggle, isLoggingIn, loginError,
                 peopleList, allUnavailability, viewConfig, batches>>

\* The "Admin View" button of the welcome screen, App.tsx:364 and 435.
openAdminLogin ==
  /\ ui = "live" /\ mode = "personal" /\ currentUser = NoUser
  /\ SetMode("admin-login", currentUser, personalUnavailability)
  /\ ev' = [op |-> "openAdminLogin"]
  /\ UNCHANGED <<now, serverVars, personalUnavailability, drag, hasMoved, lastToggle,
                 savedUser, isLoggingIn, loginError, peopleList, allUnavailability, viewConfig,
                 batches, hist>>

AdminPasswords == {"Dominic", "dominic"}

\* App.tsx:261-270
handleAdminLogin(adminPassword) ==
  /\ ui = "live" /\ mode = "admin-login"
  /\ IF adminPassword = "Dominic"
     THEN SetMode("admin", currentUser, personalUnavailability)
     ELSE UNCHANGED <<mode, currentUser, net, ui>>
  /\ ev' = [op |-> "handleAdminLogin", adminPassword |-> adminPassword]
  /\ UNCHANGED <<now, serverVars, personalUnavailability, drag, hasMoved, lastToggle,
                 savedUser, isLoggingIn, loginError, peopleList, allUnavailability, viewConfig,
                 batches, hist>>

\* The "MY DATES" button of the admin header, App.tsx:468-475.
leaveAdmin ==
  /\ ui = "live" /\ mode = "admin"
  /\ SetMode("personal", currentUser, personalUnavailability)
  /\ ev' = [op |-> "leaveAdmin"]
  /\ UNCHANGED <<now, serverVars, personalUnavailability, drag, hasMoved, lastToggle,
                 savedUser, isLoggingIn, loginError, peopleList, allUnavailability, viewConfig,
                 batches, hist>>

\* A request of a page that is gone: the server may still handle it, nobody
\* waits for the answer.
Orphan(m) == [m EXCEPT !.src = "gone", !.batch = 0]
Orphans(bag) ==
  LET reqs == { m \in BagToSet(bag) : m.stage \notin {"resp", "fail"} /\ m.src # "other" }
      kept == { m \in BagToSet(bag) : m.src \in {"other", "gone"} }
      gone == { Orphan(m) : m \in reqs } \cup kept
      copies(o) == IF o \in kept THEN CopiesIn(o, bag) ELSE 0
      turned(o) == LET from == { m \in reqs : Orphan(m) = o }
                   IN  IF from = {} THEN 0
                       ELSE LET RECURSIVE sum(_)
                                sum(S) == IF S = {} THEN 0
                                          ELSE LET x == CHOOSE y \in S : TRUE
                                               IN  CopiesIn(x, bag) + sum(S \ {x})
                            IN  sum(from)
  IN  [o \in gone |-> copies(o) + turned(o)]

\* The back button of the password form, App.tsx:343-350: window.location.reload().
reload ==
  /\ ui = "live" /\ mode = "admin-login"
  /\ ui' = "start" /\ mode' = "personal" /\ currentUser' = NoUser
  /\ personalUnavailability' = {} /\ drag' = NoDrag /\ hasMoved' = FALSE
  /\ lastToggle' = NoToggle /\ isLoggingIn' = FALSE /\ loginError' = NoError
  /\ peopleList' = {} /\ allUnavailability' = {} /\ batches' = {}
  /\ viewConfig' = [conflictMode |-> "any"]
  /\ net' = Orphans(net)
  /\ now' = now
  /\ ev' = [op |-> "reload"]
  /\ hist' = [hist EXCEPT !.call = NoCall, !.trip = NoTrip]
  /\ UNCHANGED <<serverVars, savedUser>>

\* An answer nobody waits for: the page is gone or React has unmounted it.
dropped(m) ==
  /\ m.stage \in {"resp", "fail"}
  /\ m.src = "gone" \/ (ui = "crashed" /\ m.src # "other")
  /\ net' = Take(net, m)
  /\ ev' = [op |-> "dropped"]
  /\ UNCHANGED <<now, serverVars, clientVars, hist>>

-----------------------------------------------------------------------------
(* Login: handleLogin, App.tsx:169-199, and app.post("/api/login"),        *)
(* server.ts:215-251.  The handler awaits the SELECT and then the INSERT,  *)
(* so other statements may run between the two.                            *)

\* SQL LOWER() on the names of the model.
Lower(name) ==
  CASE name = "Jan" -> "jan"
    [] name = "JAN" -> "jan"
    [] name = "Tom" -> "tom"
    [] name = "Ann" -> "ann"
    [] name = "Kevin" -> "kevin"
    [] OTHER -> name

\* What the login form is submitted with: <<name, pin>>.
LoginForms == { <<"jan", "1234">>, <<"Jan", "0000">>, <<"Tom", "7777">>, <<"", "1234">> }

handleLogin(name, pin) ==
  /\ ui = "live" /\ mode = "personal" /\ currentUser = NoUser /\ ~isLoggingIn
  /\ IF name = "" \/ pin = ""
     THEN UNCHANGED <<isLoggingIn, loginError, net>>
     ELSE /\ Room(net)
          /\ isLoggingIn' = TRUE
          /\ loginError' = NoError
          /\ net' = Send(net, [Msg("login", "login", NoUser, NoDate, FALSE)
                               EXCEPT !.name = name, !.passcode = pin])
  /\ ev' = [op |-> "handleLogin", name |-> name, pin |-> pin]
  /\ UNCHANGED <<now, serverVars, ui, mode, currentUser, personalUnavailability, drag,
                 hasMoved, lastToggle, savedUser, peopleList, allUnavailability, viewConfig, batches,
                 hist>>

\* A test of the name alone.
missingFieldNameOnly(name, passcode) == name = ""

\* server.ts:218: !name || !passcode.  The empty string stands for a missing
\* field as well: both are falsy.
missingField(name, passcode) == name = "" \/ passcode = ""

\* server.ts:225: SELECT * FROM people WHERE LOWER(name) = LOWER($1)
findUsers(ppl, name) == { r \in ppl : Lower(r.name) = Lower(name) }

\* A comparison that lets every secret pass.
passcodeAny(user, passcode) == TRUE

\* server.ts:229
passcodeMatches(user, passcode) == user.passcode = passcode

\* server.ts:231: const { passcode, ...userWithoutPasscode } = user
userWithoutPasscode(user) == [f \in DOMAIN user \ {"passcode"} |-> user[f]]

\* server.ts:245: res.json({ id, name, color })
newUserBody(id, name) == [id |-> id, name |-> name]

\* server.ts:217-236: the checks and the SELECT.  The rows of a SELECT without
\* ORDER BY come in any order, so users[0] is any of them.
ServeLoginLookup(m, reachable) ==
  /\ m.kind = "login" /\ m.stage = "req"
  /\ DbReady
  /\ LET users == findUsers(people, m.name)
     IN  IF missingField(m.name, m.passcode)
         THEN net' = Send(Take(net, m), Response(m, 400, "Name and passcode are required", {}))
         ELSE IF ~reachable
         THEN net' = Send(Take(net, m), Response(m, 500, "Internal Server Error", {}))
         ELSE IF users # {}
         THEN \E user \in users :
                net' = Send(Take(net, m),
                            IF passcodeMatches(user, m.passcode)
                            THEN [Response(m, 200, NoError, {})
                                    EXCEPT !.pid = user.id,
                                           !.identities = {userWithoutPasscode(user)}]
                            ELSE Response(m, 401, "Incorrect PIN", {}))
         ELSE net' = Send(Take(net, m), [m EXCEPT !.stage = "insert", !.pid = now])
  /\ ev' = [op |-> "login"]
  /\ UNCHANGED <<now, serverVars, clientVars, hist>>

\* INSERT INTO people (id, name, color, passcode): id is the primary key.
SqlInsertPerson(table, row) ==
  IF row.id \in PeopleIds(table) THEN Raised(table, "ConstraintViolation")
  ELSE Done(table \cup {row})

\* server.ts:239-245: the INSERT of the new Identity.
ServeLoginInsert(m, reachable) ==
  /\ m.kind = "login" /\ m.stage = "insert"
  /\ LET r == IF reachable
              THEN SqlInsertPerson(people, [id |-> m.pid, name |-> m.name,
                                            passcode |-> m.passcode])
              ELSE Raised(people, "StoreUnavailable")
     IN  /\ people' = r.table
         /\ net' = Send(Take(net, m),
                        IF r.ok
                        THEN [Response(m, 200, NoError, {})
                                EXCEPT !.identities = {newUserBody(m.pid, m.name)}]
                        ELSE Response(m, 500, "Internal Server Error", {}))
  /\ ev' = [op |-> "loginInsert"]
  /\ UNCHANGED <<now, availability, dbInitPromise, clientVars, hist>>

\* A check of res.ok that every response passes.
resOkAlways(m) == m.stage = "resp"

\* res.ok of a fetch that has settled (App.tsx:183, 276): the fetch did not
\* reject and the status is one of 200-299; the handlers answer 200 or an
\* error status.
resOk(m) == m.stage = "resp" /\ m.status = 200

\* The fetch of handleLogin settles, App.tsx:183-198.
loginSettled(m) ==
  /\ ui = "live"
  /\ m.kind = "login" /\ m.src = "login" /\ m.stage \in {"resp", "fail"}
  /\ IF resOk(m)
     THEN /\ Room(Take(net, m))
          /\ currentUser' = m.pid
          /\ savedUser' = m.pid
          /\ net' = Take(net, m) (+) SetToBag({fetchAvailability("login", m.pid)})
                       (+) dataEffect(mode, m.pid)
          /\ UNCHANGED <<isLoggingIn, loginError>>
     ELSE /\ loginError' = IF m.stage = "fail" THEN "Failed to fetch" ELSE m.error
          /\ isLoggingIn' = FALSE
          /\ net' = Take(net, m)
          /\ UNCHANGED <<currentUser, savedUser>>
  /\ ev' = [op |-> "loginSettled"]
  /\ UNCHANGED <<now, serverVars, ui, mode, personalUnavailability, drag, hasMoved,
                 lastToggle, peopleList, allUnavailability, viewConfig, batches, hist>>

-----------------------------------------------------------------------------
(* The admin view's data: app.get("/api/people"), server.ts:204-213, and   *)
(* app.get("/api/availability"), server.ts:271-284; the client stores what *)
(* it gets (App.tsx:61-63, 104-106).                                       *)

\* server.ts:207: SELECT id, name, color FROM people
selectPeople(ppl) == { [id |-> r.id, name |-> r.name] : r \in ppl }

\* api/index.ts:23: SELECT * FROM people
selectPeopleStar(ppl) == ppl

ServeGetPeople(m, reachable) ==
  /\ m.kind = "getPeople" /\ m.stage = "req"
  /\ DbReady
  /\ net' = Send(Take(net, m),
                 IF reachable
                 THEN [Response(m, 200, NoError, { <<r.id, 0>> : r \in people })
                         EXCEPT !.identities = selectPeople(people)]
                 ELSE Response(m, 500, "Failed to fetch people", ErrorBody))
  /\ ev' = [op |-> "getPeople"]
  /\ UNCHANGED <<now, serverVars, clientVars, hist>>

\* app.get("/api/people") of api/index.ts:20-28, the entry of the serverless
\* deployment.
ServeGetPeopleApi(m, reachable) ==
  /\ m.kind = "getPeople" /\ m.stage = "req"
  /\ DbReady
  /\ net' = Send(Take(net, m),
                 IF reachable
                 THEN [Response(m, 200, NoError, { <<r.id, 0>> : r \in people })
                         EXCEPT !.identities = selectPeopleStar(people)]
                 ELSE Response(m, 500, "StoreUnavailable", ErrorBody))
  /\ ev' = [op |-> "getPeopleApi"]
  /\ UNCHANGED <<now, serverVars, clientVars, hist>>

ServeGetAll(m, reachable) ==
  /\ m.kind = "getAll" /\ m.stage = "req"
  /\ DbReady
  /\ net' = Send(Take(net, m),
                 IF reachable THEN Response(m, 200, NoError, Rows(availability))
                 ELSE Response(m, 500, "StoreUnavailable", ErrorBody))
  /\ ev' = [op |-> "getAll"]
  /\ UNCHANGED <<now, serverVars, clientVars, hist>>

\* The fetches of the admin view settle: fetchPeople (App.tsx:58-67) and the
\* fetch of App.tsx:106.  handleDeletePerson goes on after its fetchPeople,
\* whether that one failed or not (App.tsx:278-285).
adminDataSettled(m) ==
  /\ ui = "live"
  /\ m.kind \in {"getPeople", "getAll"} /\ m.src # "other"
  /\ m.stage \in {"resp", "fail"}
  /\ net' = Take(net, m) (+) (IF m.kind = "getPeople" /\ m.src = "afterDelete"
                              THEN SetToBag({Msg("getAll", "afterDelete", NoUser, NoDate, FALSE)})
                              ELSE EmptyBag)
  /\ peopleList' = IF m.kind = "getPeople" /\ m.stage = "resp" THEN m.body ELSE peopleList
  /\ allUnavailability' = IF m.kind = "getAll" /\ m.stage = "resp" THEN m.body
                          ELSE allUnavailability
  /\ ev' = [op |-> "adminDataSettled"]
  /\ UNCHANGED <<now, serverVars, ui, mode, currentUser, personalUnavailability, drag,
                 hasMoved, lastToggle, savedUser, isLoggingIn, loginError, viewConfig,
                 batches, hist>>

-----------------------------------------------------------------------------
(* Removal of a participant: app.delete("/api/people/:id"),                *)
(* server.ts:253-269, and handleDeletePerson, App.tsx:272-290.  The        *)
(* handler awaits two statements one after the other, outside any          *)
(* transaction, so other statements may run between the two.  Between the  *)
(* two the exchange is at stage "deleting" and its body holds, for the     *)
(* properties, the dates the first statement deleted.                      *)

\* A first statement that deletes nothing.
SqlDeleteMarksKept(table, p) == Done(table)

\* DELETE FROM availability WHERE person_id = $1
SqlDeleteMarksOf(table, p) ==
  Done([r \in { x \in DOMAIN table : x[1] # p } |-> table[r]])

\* DELETE FROM people WHERE id = $1, on a table no foreign key refers to.
SqlDeletePersonNoKey(ppl, table, id) == Done({ u \in ppl : u.id # id })

\* DELETE FROM people WHERE id = $1: the foreign key of availability
\* (db.ts:28) has no ON DELETE clause, so a row that is referred to stays.
SqlDeletePerson(ppl, table, id) ==
  IF \E r \in DOMAIN table : r[1] = id /\ id \in PeopleIds(ppl)
  THEN Raised(ppl, "ConstraintViolation")
  ELSE Done({ u \in ppl : u.id # id })

\* server.ts:255-259: ensureDb and the first statement.
ServeDeleteMarks(m, reachable) ==
  /\ m.kind = "deletePerson" /\ m.stage = "req"
  /\ DbReady
  /\ LET r == IF reachable THEN SqlDeleteMarksOf(availability, m.pid)
              ELSE Raised(availability, "StoreUnavailable")
     IN  /\ availability' = r.table
         /\ net' = Send(Take(net, m),
                        IF r.ok
                        THEN [m EXCEPT !.stage = "deleting",
                                       !.body = DatesOf(availability, m.pid)]
                        ELSE Response(m, 500, r.error, {}))
  /\ ev' = [op |-> "deleteMarks", pid |-> m.pid, reachable |-> reachable]
  /\ UNCHANGED <<now, people, dbInitPromise, clientVars, hist>>

\* server.ts:262-268: the second statement and the answer.
ServeDeletePerson(m, reachable) ==
  /\ m.kind = "deletePerson" /\ m.stage = "deleting"
  /\ LET r == IF reachable THEN SqlDeletePerson(people, availability, m.pid)
              ELSE Raised(people, "StoreUnavailable")
     IN  /\ people' = r.table
         /\ net' = Send(Take(net, m),
                        IF r.ok THEN Response(m, 200, NoError, {})
                        ELSE Response(m, 500, r.error, {}))
  /\ ev' = [op |-> "deletePerson", pid |-> m.pid, had |-> m.body]
  /\ UNCHANGED <<now, availability, dbInitPromise, clientVars, hist>>

\* The handler without the return of App.tsx:273.
handleDeletePersonUnasked(id, confirmed) ==
  /\ ui = "live" /\ mode = "admin"
  /\ id # NoUser /\ <<id, 0>> \in peopleList
  /\ Room(net)
  /\ net' = Send(net, Msg("deletePerson", "admin", id, NoDate, FALSE))
  /\ ev' = [op |-> "handleDeletePerson", id |-> id, confirmed |-> confirmed]
  /\ UNCHANGED <<now, serverVars, clientVars, hist>>

\* App.tsx:272-275: the button of a row of the Team Overview (App.tsx:512-523);
\* confirmed is what window.confirm returns.
handleDeletePerson(id, confirmed) ==
  /\ ui = "live" /\ mode = "admin"
  /\ id # NoUser /\ <<id, 0>> \in peopleList
  /\ IF confirmed
     THEN /\ Room(net)
          /\ net' = Send(net, Msg("deletePerson", "admin", id, NoDate, FALSE))
     ELSE net' = net
  /\ ev' = [op |-> "handleDeletePerson", id |-> id, confirmed |-> confirmed]
  /\ UNCHANGED <<now, serverVars, clientVars, hist>>

\* App.tsx:275-289: the fetch settles.  The handler closed over mode "admin",
\* so its fetchPeople fetches; a failure ends in alert().
deleteSettled(m) ==
  /\ ui = "live"
  /\ m.kind = "deletePerson" /\ m.src = "admin" /\ m.stage \in {"resp", "fail"}
  /\ net' = Take(net, m) (+) (IF resOk(m)
                              THEN fetchPeople("afterDelete", "admin")
                              ELSE EmptyBag)
  /\ ev' = [op |-> "deleteSettled"]
  /\ UNCHANGED <<now, serverVars, clientVars, hist>>

-----------------------------------------------------------------------------
(* The highlight of a day of the admin calendar, App.tsx:755-772, and the  *)
(* buttons that choose the mode of the highlight, App.tsx:606-618.  ppl is *)
(* the state people, all the state allUnavailability as a set of pairs     *)
(* <<id, date>>.                                                           *)

ConflictModes == {"none", "any", "all"}

\* App.tsx:610
setConflictMode(m) ==
  /\ ui = "live" /\ mode = "admin"
  /\ viewConfig' = [viewConfig EXCEPT !.conflictMode = m]
  /\ ev' = [op |-> "setConflictMode"]
  /\ UNCHANGED <<now, serverVars, net, ui, mode, currentUser, personalUnavailability,
                 drag, hasMoved, lastToggle, savedUser, isLoggingIn, loginError,
                 peopleList, allUnavailability, batches, hist>>

\* App.tsx:762-765
unavailablePeopleForDay(ppl, all, dStr) ==
  { p \in ppl : dStr \in { r[2] : r \in { x \in all : x[1] = p[1] } } }

isConflictAllOfNone(cm, ppl, all, dStr) ==
  LET n == Cardinality(unavailablePeopleForDay(ppl, all, dStr))
  IN  IF cm = "any" THEN n > 0
      ELSE IF cm = "all" THEN n = Cardinality(ppl)
      ELSE FALSE

isConflictAnyIsAll(cm, ppl, all, dStr) ==
  LET n == Cardinality(unavailablePeopleForDay(ppl, all, dStr))
  IN  IF cm = "any" THEN n = Cardinality(ppl) /\ Cardinality(ppl) > 0
      ELSE IF cm = "all" THEN n = Cardinality(ppl) /\ Cardinality(ppl) > 0
      ELSE FALSE

\* App.tsx:767-771
isConflict(cm, ppl, all, dStr) ==
  LET n == Cardinality(unavailablePeopleForDay(ppl, all, dStr))
  IN  IF cm = "any" THEN n > 0
      ELSE IF cm = "all" THEN n = Cardinality(ppl) /\ Cardinality(ppl) > 0
      ELSE FALSE

\* The cell of a day is rendered, App.tsx:755-772: in the admin view it is
\* classified, in the others isConflict stays false.
renderDay(dStr) ==
  /\ Rendered
  /\ ev' = [op |-> "renderDay", date |-> dStr,
            isConflict |-> IF mode = "admin"
                           THEN isConflict(viewConfig.conflictMode, peopleList,
                                           allUnavailability, dStr)
                           ELSE FALSE]
  /\ UNCHANGED <<now, serverVars, net, clientVars, hist>>

-----------------------------------------------------------------------------
(* One client and the server: every step there is.                         *)

-----------------------------------------------------------------------------
(* Database initialisation.  Every handler begins with await ensureDb()    *)
(* (server.ts:206, 222, 255, 273, 288, 299; api/index.ts:22, 32, 47, 58).  *)
(* dbInitPromise is module state: a process starts with null, and a        *)
(* handler that finds the promise resolved goes on at once (DbReady).      *)
(* Stage "wait" of an exchange: its handler is suspended on the promise.   *)

\* db.ts:43 and 64: the participant that initDb adds to any database.
Grischov == [id |-> 11, name |-> "Grischov", passcode |-> "1234"]

\* initDb, db.ts:21-78, with DATABASE_URL set: CREATE TABLE IF NOT EXISTS
\* leaves existing tables alone; an empty people table is seeded (the two
\* INSERTs are separate statements, the second has no ON CONFLICT), any other
\* gets Grischov when no row has that id.
initDb(ppl, table, reachable) ==
  IF ~reachable THEN [ok |-> FALSE, people |-> ppl, availability |-> table]
  ELSE IF Cardinality(ppl) = 0
  THEN LET seeded == SEED_PEOPLE \cup {Grischov}
       IN  IF \E r \in SeedRows : PrimaryKeyHeld(table, r)
           THEN [ok |-> FALSE, people |-> seeded, availability |-> table]
           ELSE [ok |-> TRUE, people |-> seeded,
                 availability |-> table (+) SetToBag(SeedRows)]
  ELSE [ok |-> TRUE,
        people |-> IF Grischov.id \in PeopleIds(ppl) THEN ppl ELSE ppl \cup {Grischov},
        availability |-> table]

\* The catch block of the handler of m: status 500.
initFailure(m) ==
  Response(m, 500,
           CASE m.kind = "login" -> "Internal Server Error"
             [] m.kind = "getPeople" -> "Failed to fetch people"
             [] OTHER -> "StoreUnavailable",
           IF m.kind \in {"getAvail", "getPeople", "getAll"} THEN ErrorBody ELSE {})

\* The handlers suspended on the promise, when it settles: each goes on to
\* its statements, or to its catch block.
RECURSIVE Settle(_, _)
Settle(bag, ok) ==
  IF \A m \in BagToSet(bag) : m.stage # "wait" THEN bag
  ELSE LET m == CHOOSE x \in BagToSet(bag) : x.stage = "wait"
       IN  Settle(Send(Take(bag, m), IF ok THEN [m EXCEPT !.stage = "req"]
                                     ELSE initFailure(m)), ok)

\* ensureDb that starts a run whatever the promise is.
ensureDbAlways(promise) == [starts |-> TRUE, promise |-> "pending"]

\* ensureDb, server.ts:191-201 and api/index.ts:7-17: a run is started when
\* the promise is null.
ensureDb(promise) ==
  [starts |-> promise = "null",
   promise |-> IF promise = "null" THEN "pending" ELSE promise]

\* A handler reaches await ensureDb() before a run has succeeded.
awaitEnsureDb(m) ==
  /\ m.stage = "req" /\ ~DbReady
  /\ dbInitPromise' = ensureDb(dbInitPromise).promise
  /\ net' = Send(Take(net, m), [m EXCEPT !.stage = "wait"])
  /\ ev' = [op |-> "ensureDb", starts |-> ensureDb(dbInitPromise).starts,
            was |-> dbInitPromise]
  /\ UNCHANGED <<now, people, availability, clientVars, hist>>

\* The run of initDb ends: the promise resolves, or the catch of
\* server.ts:194-198 sets it to null and rejects.
initDbSettled(reachable) ==
  /\ dbInitPromise = "pending"
  /\ LET r == initDb(people, availability, reachable)
     IN  /\ people' = r.people
         /\ availability' = r.availability
         /\ dbInitPromise' = IF r.ok THEN "resolved" ELSE "null"
         /\ net' = Settle(net, r.ok)
         /\ ev' = [op |-> "initDb", ok |-> r.ok,
                   waiting |-> { m \in BagToSet(net) : m.stage = "wait" }]
  /\ UNCHANGED <<now, clientVars, hist>>

\* The process ends while it handles nothing and another one starts: module
\* state is new (server.ts:191, api/index.ts:7), the database is the same.
coldStart ==
  /\ DbReady
  /\ \A m \in BagToSet(net) : m.stage \in {"req", "resp", "fail"}
  /\ dbInitPromise' = "null"
  /\ ev' = [op |-> "coldStart"]
  /\ UNCHANGED <<now, people, availability, net, clientVars, hist>>

InitHist == hist = NoHist

Init ==
  /\ InitServer /\ InitClient /\ InitHist /\ now = Epoch
  /\ savedUser \in {NoUser, 1}
  /\ ev = [op |-> "init"]

Next ==
  \/ Tick
  \/ mount
  \/ \E d \in Dates : toggleDate(d)
  \/ \E d \in Dates : handleDragStart(d)
  \/ \E d \in Dates : handleDragEnter(d)
  \/ finalizeDrag
  \/ \E f \in LoginForms : handleLogin(f[1], f[2])
  \/ handleLogout
  \/ openAdminLogin
  \/ \E pw \in AdminPasswords : handleAdminLogin(pw)
  \/ leaveAdmin
  \/ reload
  \/ \E m \in BagToSet(net) : toggleSettled(m)
  \/ \E m \in BagToSet(net) : dragSettled(m)
  \/ \E m \in BagToSet(net) : availabilitySettled(m)
  \/ \E m \in BagToSet(net) : loginSettled(m)
  \/ \E m \in BagToSet(net) : adminDataSettled(m)
  \/ \E m \in BagToSet(net) : dropped(m)
  \/ \E m \in BagToSet(net) : NetworkFails(m)
  \/ \E m \in BagToSet(net), r \in BOOLEAN : ServePostAvailability(m, r)
  \/ \E m \in BagToSet(net), r \in BOOLEAN : ServeGetAvailability(m, r)
  \/ \E m \in BagToSet(net), r \in BOOLEAN : ServeLoginLookup(m, r)
  \/ \E m \in BagToSet(net), r \in BOOLEAN : ServeLoginInsert(m, r)
  \/ \E m \in BagToSet(net), r \in BOOLEAN : ServeGetPeople(m, r)
  \/ \E m \in BagToSet(net), r \in BOOLEAN : ServeGetPeopleApi(m, r)
  \/ \E m \in BagToSet(net), r \in BOOLEAN : ServeGetAll(m, r)
  \/ \E id \in PeopleIds(people) \cup SeedIds, c \in BOOLEAN : handleDeletePerson(id, c)
  \/ \E m \in BagToSet(net) : deleteSettled(m)
  \/ \E m \in BagToSet(net), r \in BOOLEAN : ServeDeleteMarks(m, r)
  \/ \E m \in BagToSet(net), r \in BOOLEAN : ServeDeletePerson(m, r)
  \/ \E m \in ConflictModes : setConflictMode(m)
  \/ \E d \in Dates : renderDay(d)
  \/ \E d \in Dates : onClick(d)
  \/ \E m \in BagToSet(net) : awaitEnsureDb(m)
  \/ \E r \in BOOLEAN : initDbSettled(r)
  \/ coldStart

Spec == Init /\ [][Next]_vars

-----------------------------------------------------------------------------
(* The store under requests of any clients.  The endpoint takes the        *)
(* participant from the URL, so a request may name any participant.        *)

OtherClientPost(p, d, a) ==
  /\ Room(net)
  /\ net' = Send(net, Msg("postAvail", "other", p, d, a))
  /\ ev' = [op |-> "OtherClientPost"]
  /\ UNCHANGED <<now, serverVars, clientVars, hist>>

OtherClientDone(m) ==
  /\ m.src = "other" /\ m.stage \in {"resp", "fail"}
  /\ net' = Take(net, m)
  /\ ev' = [op |-> "OtherClientDone"]
  /\ UNCHANGED <<now, serverVars, clientVars, hist>>

\* The participants other clients write for: a registered one and an id that
\* no Identity has.
OtherIds == {1, Epoch}

InitStore ==
  /\ InitServer /\ InitClient /\ InitHist /\ now = Epoch /\ savedUser = NoUser
  /\ ev = [op |-> "init"]

NextStore ==
  \/ \E p \in OtherIds, d \in Dates, a \in BOOLEAN : OtherClientPost(p, d, a)
  \/ \E m \in BagToSet(net), r \in BOOLEAN : ServePostAvailability(m, r)
  \/ \E m \in BagToSet(net) : NetworkFails(m)
  \/ \E m \in BagToSet(net) : OtherClientDone(m)

SpecStore == InitStore /\ [][NextStore]_vars

-----------------------------------------------------------------------------
(* A participant whose identity is saved in the browser, toggling dates.   *)

InitToggle ==
  /\ InitServer /\ InitClient /\ now = Epoch /\ savedUser = 1
  /\ hist = [NoHist EXCEPT !.on = TRUE]
  /\ ev = [op |-> "init"]

NextToggle ==
  \/ Tick
  \/ mount
  \/ \E d \in ToggleDates : toggleDate(d)
  \/ \E m \in BagToSet(net) : toggleSettled(m)
  \/ \E m \in BagToSet(net) : availabilitySettled(m)
  \/ \E m \in BagToSet(net) : dropped(m)
  \/ \E m \in BagToSet(net) : NetworkFails(m)
  \/ \E m \in BagToSet(net), r \in BOOLEAN : ServePostAvailability(m, r)
  \/ \E m \in BagToSet(net), r \in BOOLEAN : ServeGetAvailability(m, r)

SpecToggle == InitToggle /\ [][NextToggle]_vars

-----------------------------------------------------------------------------
(* The same participant, dragging over the calendar.                       *)

NextDrag ==
  \/ mount
  \/ \E d \in Dates : handleDragStart(d)
  \/ \E d \in Dates : handleDragEnter(d)
  \/ finalizeDrag
  \/ \E m \in BagToSet(net) : toggleSettled(m)
  \/ \E m \in BagToSet(net) : dragSettled(m)
  \/ \E m \in BagToSet(net) : availabilitySettled(m)
  \/ \E m \in BagToSet(net) : ServePostAvailability(m, TRUE)
  \/ \E m \in BagToSet(net) : ServeGetAvailability(m, TRUE)

\* The store holds the seed rows and whatever the participant marked before.
InitDrag ==
  /\ people = SEED_PEOPLE
  /\ \E marked \in SUBSET Dates :
       availability = SetToBag(SeedRows \cup { <<1, d>> : d \in marked })
  /\ dbInitPromise = "resolved"
  /\ net = EmptyBag
  /\ InitClient /\ InitHist /\ now = Epoch /\ savedUser = 1
  /\ ev = [op |-> "init"]

SpecDrag == InitDrag /\ [][NextDrag]_vars

-----------------------------------------------------------------------------
(* The same participant clicking cells of the month view with the mouse.   *)
(* A click is mousedown (handleDragStart), mouseup (finalizeDrag, on the   *)
(* container, App.tsx:362) and click (onClick) on one cell; the browser    *)
(* dispatches click right after mouseup, so no time passes and no other    *)
(* event is handled between the two.                                       *)

ClickPending == ev.op = "finalizeDrag"

NextClick ==
  \/ ~ClickPending /\ Tick
  \/ ~ClickPending /\ mount
  \/ \E d \in ToggleDates : ~ClickPending /\ drag = NoDrag /\ handleDragStart(d)
  \/ ~ClickPending /\ drag # NoDrag /\ finalizeDrag
  \/ \E d \in ToggleDates : ClickPending /\ ev.date = d /\ onClick(d)
  \/ \E m \in BagToSet(net) : ~ClickPending /\ toggleSettled(m)
  \/ \E m \in BagToSet(net) : ~ClickPending /\ availabilitySettled(m)
  \/ \E m \in BagToSet(net) : ~ClickPending /\ ServePostAvailability(m, TRUE)
  \/ \E m \in BagToSet(net) : ~ClickPending /\ ServeGetAvailability(m, TRUE)

InitClick ==
  /\ InitServer /\ InitClient /\ InitHist /\ now = Epoch /\ savedUser = 1
  /\ ev = [op |-> "init"]

SpecClick == InitClick /\ [][NextClick]_vars

-----------------------------------------------------------------------------
(* The same participant alone with a server that answers every request:    *)
(* nothing fails, nobody else writes, and a gesture is made only when the  *)
(* server has applied every POST sent before, so that the store applies    *)
(* the requests for a date in the order of their sending.                  *)

NoPostUnserved ==
  \A r \in BagToSet(net) : ~(r.kind = "postAvail" /\ r.stage = "req")

NextQuiet ==
  \/ Tick
  \/ mount
  \/ \E d \in ToggleDates : NoPostUnserved /\ toggleDate(d)
  \/ \E d \in ToggleDates : handleDragStart(d)
  \/ \E d \in ToggleDates : handleDragEnter(d)
  \/ NoPostUnserved /\ finalizeDrag
  \/ \E m \in BagToSet(net) : toggleSettled(m)
  \/ \E m \in BagToSet(net) : dragSettled(m)
  \/ \E m \in BagToSet(net) : availabilitySettled(m)
  \/ \E m \in BagToSet(net) : ServePostAvailability(m, TRUE)
  \/ \E m \in BagToSet(net) : ServeGetAvailability(m, TRUE)

SpecQuiet == InitClick /\ [][NextQuiet]_vars

-----------------------------------------------------------------------------
(* The same participant clicking and dragging (a click is a drag that ends *)
(* where it began, and finalizeDrag makes the toggle) until a persistence  *)
(* request fails: the network loses it or its response, or the store       *)
(* cannot be reached when it arrives.  After the failure the participant   *)
(* makes no gesture, nothing else fails, and the exchanges in flight run   *)
(* down.                                                                   *)

InitFail ==
  /\ InitServer /\ InitClient /\ now = Epoch /\ savedUser = 1
  /\ hist = [NoHist EXCEPT !.watch = "none"]
  /\ ev = [op |-> "init"]

NoFailureYet == hist.watch = "none"

NextFail ==
  \/ mount
  \/ \E d \in ToggleDates : NoFailureYet /\ handleDragStart(d)
  \/ \E d \in ToggleDates : NoFailureYet /\ handleDragEnter(d)
  \/ NoFailureYet /\ finalizeDrag
  \/ \E m \in BagToSet(net) : toggleSettled(m)
  \/ \E m \in BagToSet(net) : dragSettled(m)
  \/ \E m \in BagToSet(net) : availabilitySettled(m)
  \/ \E m \in BagToSet(net) : NoFailureYet /\ m.kind = "postAvail" /\ NetworkFails(m)
  \/ \E m \in BagToSet(net), r \in BOOLEAN :
        (r \/ NoFailureYet) /\ ServePostAvailability(m, r)
  \/ \E m \in BagToSet(net) : ServeGetAvailability(m, TRUE)

SpecFail == InitFail /\ [][NextFail]_vars

-----------------------------------------------------------------------------
(* The Identity Store under logins from any clients, and the login of the  *)
(* one browser that is modelled in full.  POST /api/login and GET          *)
(* /api/people ask for no credential, so any client may send them.         *)

OtherClientLogin(name, pin) ==
  /\ Room(net)
  /\ net' = Send(net, [Msg("login", "other", NoUser, NoDate, FALSE)
                       EXCEPT !.name = name, !.passcode = pin])
  /\ ev' = [op |-> "OtherClientLogin"]
  /\ UNCHANGED <<now, serverVars, clientVars, hist>>

OtherClientGetPeople ==
  /\ Room(net)
  /\ net' = Send(net, Msg("getPeople", "other", NoUser, NoDate, FALSE))
  /\ ev' = [op |-> "OtherClientGetPeople"]
  /\ UNCHANGED <<now, serverVars, clientVars, hist>>

\* What other clients log in with: two spellings of an unseen name with two
\* secrets, another unseen name, a seeded name with a wrong secret, and a
\* request without a name and one without a secret.
OtherForms == { <<"Tom", "7777">>, <<"tom", "0000">>, <<"Ann", "1111">>,
                <<"Jan", "0000">>, <<"", "1234">>, <<"Tom", "">> }

InitLogin ==
  /\ InitServer /\ InitClient /\ InitHist /\ now = Epoch /\ savedUser = NoUser
  /\ ev = [op |-> "init"]

NextLogin ==
  \/ Tick
  \/ mount
  \/ \E f \in LoginForms : handleLogin(f[1], f[2])
  \/ \E f \in OtherForms : OtherClientLogin(f[1], f[2])
  \/ OtherClientGetPeople
  \/ \E m \in BagToSet(net) : loginSettled(m)
  \/ \E m \in BagToSet(net) : availabilitySettled(m)
  \/ \E m \in BagToSet(net) : OtherClientDone(m)
  \/ \E m \in BagToSet(net) : ServeLoginLookup(m, TRUE)
  \/ \E m \in BagToSet(net) : ServeLoginInsert(m, TRUE)
  \/ \E m \in BagToSet(net) : ServeGetPeople(m, TRUE)
  \/ \E m \in BagToSet(net) : ServeGetPeopleApi(m, TRUE)
  \/ \E m \in BagToSet(net) : ServeGetAvailability(m, TRUE)

SpecLogin == InitLogin /\ [][NextLogin]_vars

-----------------------------------------------------------------------------
(* Sessions: a browser with or without a saved identity, logging in and    *)
(* out and entering and leaving the admin view, with the gestures of the   *)
(* calendar made in every one of these states.                             *)

SessionDates == { format(FirstDay) }
SessionForms == { <<"jan", "1234">> }

NextSession ==
  \/ mount
  \/ \E d \in SessionDates : toggleDate(d)
  \/ \E d \in SessionDates : handleDragStart(d)
  \/ \E d \in SessionDates : handleDragEnter(d)
  \/ finalizeDrag
  \/ \E f \in SessionForms : handleLogin(f[1], f[2])
  \/ handleLogout
  \/ openAdminLogin
  \/ \E pw \in AdminPasswords : handleAdminLogin(pw)
  \/ leaveAdmin
  \/ \E m \in BagToSet(net) : toggleSettled(m)
  \/ \E m \in BagToSet(net) : availabilitySettled(m)
  \/ \E m \in BagToSet(net) : loginSettled(m)
  \/ \E m \in BagToSet(net) : adminDataSettled(m)
  \/ \E m \in BagToSet(net) : ServePostAvailability(m, TRUE)
  \/ \E m \in BagToSet(net) : ServeGetAvailability(m, TRUE)
  \/ \E m \in BagToSet(net) : ServeLoginLookup(m, TRUE)
  \/ \E m \in BagToSet(net) : ServeGetPeople(m, TRUE)
  \/ \E m \in BagToSet(net) : ServeGetAll(m, TRUE)

SpecSession == Init /\ [][NextSession]_vars

-----------------------------------------------------------------------------
(* The store under removals: clients of any kind write marks, remove       *)
(* participants, register and read every mark.  The server does not ask    *)
(* who sends a DELETE, so any client may send one for any id.              *)

OtherClientDelete(p) ==
  /\ Room(net)
  /\ net' = Send(net, Msg("deletePerson", "other", p, NoDate, FALSE))
  /\ ev' = [op |-> "OtherClientDelete"]
  /\ UNCHANGED <<now, serverVars, clientVars, hist>>

OtherClientGetAll ==
  /\ Room(net)
  /\ net' = Send(net, Msg("getAll", "other", NoUser, NoDate, FALSE))
  /\ ev' = [op |-> "OtherClientGetAll"]
  /\ UNCHANGED <<now, serverVars, clientVars, hist>>

\* Whom the clients write for and remove: a seeded participant and the one
\* that registers.
RemovalIds == {1, Epoch}
RemovalForms == { <<"Tom", "7777">> }

InitRemoval ==
  /\ InitServer /\ InitClient /\ InitHist /\ now = Epoch /\ savedUser = NoUser
  /\ ev = [op |-> "init"]

NextRemoval ==
  \/ \E p \in RemovalIds, d \in ToggleDates, a \in BOOLEAN : OtherClientPost(p, d, a)
  \/ \E p \in RemovalIds : OtherClientDelete(p)
  \/ \E f \in RemovalForms : OtherClientLogin(f[1], f[2])
  \/ OtherClientGetAll
  \/ \E m \in BagToSet(net) : OtherClientDone(m)
  \/ \E m \in BagToSet(net) : ServePostAvailability(m, TRUE)
  \/ \E m \in BagToSet(net), r \in BOOLEAN : ServeDeleteMarks(m, r)
  \/ \E m \in BagToSet(net), r \in BOOLEAN : ServeDeletePerson(m, r)
  \/ \E m \in BagToSet(net) : ServeLoginLookup(m, TRUE)
  \/ \E m \in BagToSet(net) : ServeLoginInsert(m, TRUE)
  \/ \E m \in BagToSet(net) : ServeGetAll(m, TRUE)

SpecRemoval == InitRemoval /\ [][NextRemoval]_vars

-----------------------------------------------------------------------------
(* A database seeded by an earlier process, and processes that start,      *)
(* initialise it on their first requests and end, under removals, logins   *)
(* and reads of any clients.                                               *)

InitIds == PeopleIds(SEED_PEOPLE \cup {Grischov})
InitForms == { <<"Grischov", "1234">> }

InitInit ==
  /\ people = SEED_PEOPLE \cup {Grischov}
  /\ availability = SetToBag(SeedRows)
  /\ dbInitPromise = "null"
  /\ net = EmptyBag
  /\ InitClient /\ InitHist /\ now = Epoch /\ savedUser = NoUser
  /\ ev = [op |-> "init"]

NextInit ==
  \/ \E p \in InitIds : OtherClientDelete(p)
  \/ \E f \in InitForms : OtherClientLogin(f[1], f[2])
  \/ OtherClientGetAll
  \/ \E m \in BagToSet(net) : OtherClientDone(m)
  \/ \E m \in BagToSet(net) : awaitEnsureDb(m)
  \/ \E r \in BOOLEAN : initDbSettled(r)
  \/ coldStart
  \/ \E m \in BagToSet(net) : ServeDeleteMarks(m, TRUE)
  \/ \E m \in BagToSet(net) : ServeDeletePerson(m, TRUE)
  \/ \E m \in BagToSet(net) : ServeLoginLookup(m, TRUE)
  \/ \E m \in BagToSet(net) : ServeLoginInsert(m, TRUE)
  \/ \E m \in BagToSet(net) : ServeGetAll(m, TRUE)

SpecInit == InitInit /\ [][NextInit]_vars

-----------------------------------------------------------------------------
(* The admin view removing participants, while another client writes marks *)
(* for them.                                                               *)

AdminDates == { format(FirstDay) }

NextAdmin ==
  \/ mount
  \/ openAdminLogin
  \/ \E pw \in AdminPasswords : handleAdminLogin(pw)
  \/ \E id \in SeedIds, c \in BOOLEAN : handleDeletePerson(id, c)
  \/ \E m \in BagToSet(net) : deleteSettled(m)
  \/ \E m \in BagToSet(net) : adminDataSettled(m)
  \/ \E p \in SeedIds, d \in AdminDates : OtherClientPost(p, d, FALSE)
  \/ \E m \in BagToSet(net) : OtherClientDone(m)
  \/ \E m \in BagToSet(net) : NetworkFails(m)
  \/ \E m \in BagToSet(net) : ServePostAvailability(m, TRUE)
  \/ \E m \in BagToSet(net), r \in BOOLEAN : ServeDeleteMarks(m, r)
  \/ \E m \in BagToSet(net), r \in BOOLEAN : ServeDeletePerson(m, r)
  \/ \E m \in BagToSet(net) : ServeGetPeople(m, TRUE)
  \/ \E m \in BagToSet(net) : ServeGetAll(m, TRUE)

SpecAdmin == InitRemoval /\ [][NextAdmin]_vars

-----------------------------------------------------------------------------
(* The admin view entered and left, with removals confirmed in it, and no  *)
(* other client.                                                           *)

NextAdminView ==
  \/ mount
  \/ openAdminLogin
  \/ \E pw \in AdminPasswords : handleAdminLogin(pw)
  \/ leaveAdmin
  \/ \E id \in SeedIds, c \in BOOLEAN : handleDeletePerson(id, c)
  \/ \E m \in BagToSet(net) : deleteSettled(m)
  \/ \E m \in BagToSet(net) : adminDataSettled(m)
  \/ \E m \in BagToSet(net) : ServeDeleteMarks(m, TRUE)
  \/ \E m \in BagToSet(net) : ServeDeletePerson(m, TRUE)
  \/ \E m \in BagToSet(net) : ServeGetPeople(m, TRUE)
  \/ \E m \in BagToSet(net) : ServeGetAll(m, TRUE)

SpecAdminView == InitRemoval /\ [][NextAdminView]_vars

-----------------------------------------------------------------------------
(* The highlight of the admin calendar over any lists the view may hold.   *)

ConflictIds == {1, 2, Epoch}

InitConflict ==
  /\ InitServer /\ InitHist /\ now = Epoch /\ savedUser = NoUser
  /\ ui = "live" /\ mode = "admin" /\ currentUser = NoUser
  /\ personalUnavailability = {} /\ drag = NoDrag /\ hasMoved = FALSE
  /\ lastToggle = NoToggle /\ isLoggingIn = FALSE /\ loginError = NoError
  /\ batches = {}
  /\ peopleList \in SUBSET { <<p, 0>> : p \in ConflictIds }
  /\ allUnavailability \in SUBSET (ConflictIds \X ToggleDates)
  /\ viewConfig = [conflictMode |-> "any"]
  /\ ev = [op |-> "init"]

NextConflict ==
  \/ \E m \in ConflictModes : setConflictMode(m)
  \/ \E d \in ToggleDates : renderDay(d)

SpecConflict == InitConflict /\ [][NextConflict]_vars

-----------------------------------------------------------------------------
\* C1: a request to mark (available = false) a pair that is already present leaves
\* exactly one row for the pair and answers 200; a request to clear
\* (available = true) a pair that is absent leaves no row and answers 200.
\* A run in which the store cannot be reached applies nothing and is left out.
C1_Idempotent ==
  (ev.op = "postAvailability" /\ ev.resp.error # "StoreUnavailable") =>
     LET row == <<ev.resp.pid, ev.resp.date>>
     IN  /\ (~ev.resp.available /\ ev.had = 1) =>
               (Count(availability, row) = 1 /\ ev.resp.status = 200)
         /\ (ev.resp.available /\ ev.had = 0) =>
               (Count(availability, row) = 0 /\ ev.resp.status = 200)

C1_Witness ==
  /\ ev.op = "postAvailability" /\ ~ev.resp.available /\ ev.had = 1
  /\ ev.resp.status = 200
  /\ Count(availability, <<ev.resp.pid, ev.resp.date>>) = 1

\* C2: the availability table never holds two rows for one (participant, date),
\* however the inserts interleave, and an insert for a pair that is already
\* present is never answered with a constraint error.
C2_OneRowPerPair ==
  /\ \A row \in Rows(availability) : Count(availability, row) <= 1
  /\ (ev.op = "postAvailability" /\ ~ev.resp.available /\ ev.had >= 1) =>
        ev.resp.error \in {"", "StoreUnavailable"}

\* Two racing inserts for one pair have both been answered.
C2_Witness ==
  \E m \in BagToSet(net) :
     /\ m.kind = "postAvail" /\ m.stage = "resp" /\ ~m.available
     /\ m.status = 200 /\ CopiesIn(m, net) >= 2
     /\ Count(availability, <<m.pid, m.date>>) = 1

-----------------------------------------------------------------------------
(* What a step adds to the exchanges in flight, and the states the claims  *)
(* below speak of.                                                         *)

\* The requests a step sends, each with the number of copies sent.
Sent == { m \in BagToSet(net') : CopiesIn(m, net') > CopiesIn(m, net) }
SentCount == BagCardinality(net') - BagCardinality(net)
NothingTaken == \A m \in BagToSet(net) : CopiesIn(m, net') >= CopiesIn(m, net)

\* An authenticated participant in the personal view.
InPersonalView == mode = "personal" /\ currentUser # NoUser

\* The last accepted toggle was of this date, less than 300 ms ago.
InWindow(dateStr) == lastToggle.date = dateStr /\ now - lastToggle.time < DebounceMs

\* A request of the participant to persist one date, not yet handled.
IsRequest(m, dateStr, flag) ==
  /\ m.kind = "postAvail" /\ m.stage = "req" /\ m.pid = currentUser
  /\ m.date = dateStr /\ m.available = flag

\* A drag with both anchors set, and the calendar days between them.
DragSet == drag.start # NoDate /\ drag.end # NoDate
Interval(a, b) ==
  { d \in Dates : /\ parseISO(d) >= parseISO(a) \/ parseISO(d) >= parseISO(b)
                  /\ parseISO(d) <= parseISO(a) \/ parseISO(d) <= parseISO(b) }

\* C3: a single-date toggle by an authenticated participant in the personal view
\* that the debounce lets through flips the date in the local set in the same
\* step, before any response, and sends exactly one request, for the
\* participant's own id and that date, whose flag available is true iff the
\* date was in the local set before the flip.
C3_SingleToggle ==
  [][ (ev'.op = "toggleDate" /\ InPersonalView /\ ~InWindow(ev'.date)) =>
        LET d == ev'.date
            was == d \in personalUnavailability
        IN  /\ personalUnavailability' = IF was THEN personalUnavailability \ {d}
                                         ELSE personalUnavailability \cup {d}
            /\ NothingTaken /\ SentCount = 1
            /\ \A m \in Sent : IsRequest(m, d, was) ]_vars

\* A marked date has been toggled: it left the local set and the request asks
\* to make the participant available.
C3_Witness ==
  /\ ev.op = "toggleDate" /\ ev.kind = "accepted"
  /\ ev.date \notin personalUnavailability
  /\ \E m \in BagToSet(net) : IsRequest(m, ev.date, TRUE) /\ m.src = "toggle"

\* C4 (as amended): a toggle call for a date that arrives less than 300 ms after
\* the last accepted toggle, when that accepted toggle was of the same date, is
\* dropped: the local set is unchanged, no request is sent, and nothing is kept
\* to run later (the guard's own record and the suspended runs are unchanged).
C4_Debounce ==
  [][ (ev'.op = "toggleDate" /\ InPersonalView /\ InWindow(ev'.date)) =>
        /\ personalUnavailability' = personalUnavailability
        /\ net' = net
        /\ lastToggle' = lastToggle /\ batches' = batches ]_vars

\* A call 150 ms after the accepted one has been dropped.
C4_Witness ==
  /\ ev.op = "toggleDate" /\ ev.kind = "dropped"
  /\ lastToggle.date = ev.date /\ lastToggle.time < now
  /\ hist.call = [date |-> ev.date, time |-> now]

\* C4 as claimed: a toggle call for a date that arrives less than 300 ms after
\* the previous call for that date, whatever became of that call, changes
\* nothing and sends nothing.
C4_AnyTwoCalls ==
  [][ (ev'.op = "toggleDate" /\ InPersonalView
        /\ hist.call.date = ev'.date /\ now - hist.call.time < DebounceMs) =>
        /\ personalUnavailability' = personalUnavailability
        /\ net' = net ]_vars

\* C5 (as amended): from a local set equal to the participant's rows of the
\* store, with nothing in flight, two accepted toggles of one date with no other
\* accepted gesture between them leave the local set and the participant's rows
\* as they were, once the store has applied both requests in the order they were
\* issued, provided no exchange was lost or refused.
C5_RoundTripInOrder ==
  (hist.trip.phase = "second" /\ hist.trip.applied = 2 /\ hist.trip.ok) =>
     /\ personalUnavailability = hist.trip.orig
     /\ DatesOf(availability, currentUser) = hist.trip.orig

\* The round trip of a date that was marked: cleared, then marked again.
C5_Witness ==
  /\ hist.trip.phase = "second" /\ hist.trip.applied = 2 /\ hist.trip.ok
  /\ hist.trip.date \in hist.trip.orig
  /\ net = EmptyBag

\* C5 as claimed: after the two accepted toggles, when every exchange has
\* ended, the local set and the participant's rows are as they were.
C5_RoundTrip ==
  (hist.trip.phase = "second" /\ net = EmptyBag) =>
     /\ personalUnavailability = hist.trip.orig
     /\ DatesOf(availability, currentUser) = hist.trip.orig

\* C6: when finalizeDrag ends a drag whose anchors differ, every day from the
\* earlier anchor to the later one is in the local set afterwards, and exactly
\* one request with available = false is sent for each of these days that was
\* not in the local set before, and no other request.
C6_RangeCoverage ==
  [][ (ev'.op = "finalizeDrag" /\ InPersonalView /\ DragSet /\ drag.start # drag.end) =>
        LET interval == Interval(drag.start, drag.end)
            fresh == interval \ personalUnavailability
        IN  /\ interval \subseteq personalUnavailability'
            /\ NothingTaken /\ SentCount = Cardinality(fresh)
            /\ \A d \in fresh : \E m \in Sent : IsRequest(m, d, FALSE)
            /\ \A m \in Sent : \E d \in fresh : IsRequest(m, d, FALSE) ]_vars

\* A drag over three days has sent a request for each.
C6_Witness ==
  /\ ev.op = "finalizeDrag" /\ ev.kind = "range"
  /\ Cardinality(Interval(drag.start, drag.end)) = 3
  /\ \A d \in Interval(drag.start, drag.end) :
        /\ d \in personalUnavailability
        /\ \E m \in BagToSet(net) : IsRequest(m, d, FALSE) /\ m.src = "drag"

\* C7: finalizeDrag on a drag from a to b, a # b, leaves the local set and sends
\* the requests that the drag from b to a gives from the same local set.
C7_Normalization ==
  [][ (ev'.op = "finalizeDrag" /\ InPersonalView /\ DragSet /\ drag.start # drag.end) =>
        LET back == [start |-> drag.end, end |-> drag.start]
            out == rangeOutcome(back, personalUnavailability, currentUser, 0)
        IN  /\ personalUnavailability' = out.local
            /\ NothingTaken /\ SentCount = BagCardinality(out.requests)
            /\ { [m EXCEPT !.batch = 0] : m \in Sent } = BagToSet(out.requests) ]_vars

\* A drag from a later day back to an earlier one has been finalized.
C7_Witness ==
  /\ ev.op = "finalizeDrag" /\ ev.kind = "range"
  /\ parseISO(drag.end) < parseISO(drag.start)
  /\ \E m \in BagToSet(net) : IsRequest(m, drag.end, FALSE) /\ m.src = "drag"

\* C8: finalizeDrag on a drag whose anchors differ removes no date from the
\* local set, sends no request with available = true, and sends no request for
\* a date that was in the local set already.
C8_NonClearing ==
  [][ (ev'.op = "finalizeDrag" /\ InPersonalView /\ DragSet /\ drag.start # drag.end) =>
        /\ personalUnavailability \subseteq personalUnavailability'
        /\ NothingTaken
        /\ \A m \in Sent : ~m.available /\ m.date \notin personalUnavailability ]_vars

\* A drag over a marked day and an unmarked one: a request for the unmarked
\* one alone.
C8_Witness ==
  /\ ev.op = "finalizeDrag" /\ ev.kind = "range"
  /\ \E d \in Interval(drag.start, drag.end) :
        /\ d \in personalUnavailability
        /\ \A m \in BagToSet(net) : ~(m.src = "drag" /\ m.date = d)
  /\ \E m \in BagToSet(net) : m.src = "drag" /\ m.stage = "req"

\* C9: when finalizeDrag ends a drag whose anchors are one date and the pointer
\* has not moved, it does what toggleDate does for that date: inside the
\* debounce window nothing; otherwise it flips the date in the local set and
\* sends one request whose flag available is true iff the date was marked.  It
\* sends no request of a range and suspends no run, and it resets the drag.
C9_DegenerateRange ==
  [][ (ev'.op = "finalizeDrag" /\ InPersonalView /\ DragSet /\ drag.start = drag.end
        /\ ~hasMoved) =>
        LET d == drag.start
            was == d \in personalUnavailability
        IN  /\ IF InWindow(d)
               THEN personalUnavailability' = personalUnavailability /\ net' = net
               ELSE /\ personalUnavailability' = IF was THEN personalUnavailability \ {d}
                                                 ELSE personalUnavailability \cup {d}
                    /\ NothingTaken /\ SentCount = 1
                    /\ \A m \in Sent : IsRequest(m, d, was) /\ m.src = "toggle"
                    /\ lastToggle' = [date |-> d, time |-> now]
            /\ batches' = batches
            /\ drag' = NoDrag ]_vars

\* A click on a marked day has unmarked it.
C9_Witness ==
  /\ ev.op = "finalizeDrag" /\ ev.kind = "click"
  /\ drag = NoDrag /\ lastToggle.date \notin personalUnavailability
  /\ \E m \in BagToSet(net) : IsRequest(m, lastToggle.date, TRUE) /\ m.src = "toggle"

\* C10: with no authenticated identity, or in the admin view, toggleDate,
\* handleDragStart, handleDragEnter and finalizeDrag leave the local set
\* unchanged and send nothing.
C10_NoOp ==
  [][ (ev'.op \in {"toggleDate", "handleDragStart", "handleDragEnter", "finalizeDrag"}
        /\ (currentUser = NoUser \/ mode = "admin")) =>
        /\ personalUnavailability' = personalUnavailability
        /\ net' = net ]_vars

\* A toggle made in the admin view by a participant who is logged in.
C10_Witness ==
  /\ ev.op = "toggleDate" /\ ev.kind = "ignored"
  /\ mode = "admin" /\ currentUser # NoUser

-----------------------------------------------------------------------------
(* Failures of persistence requests.                                       *)

\* The exchanges a step takes out of flight.
Taken == { m \in BagToSet(net) : CopiesIn(m, net') < CopiesIn(m, net) }

\* A persistence request that failed: its fetch rejected, or the server
\* reported a failure of the store.
HasFailed(m) ==
  m.kind = "postAvail" /\ (m.stage = "fail" \/ (m.stage = "resp" /\ m.status = 500))

\* C11: when the persistence request of a single-date toggle has failed, by a
\* network failure or by a store failure the server reported, the client leaves
\* the local set as the toggle made it and sends a fetch of that identity's
\* Availability set; when that fetch is answered, the local set becomes the
\* fetched result.
C11_RefetchOnFailure ==
  [][ /\ (ev'.op = "toggleSettled" /\ \E m \in Taken : HasFailed(m)) =>
           /\ personalUnavailability' = personalUnavailability
           /\ \E m \in Taken, r \in Sent :
                 r.kind = "getAvail" /\ r.stage = "req" /\ r.pid = m.pid
      /\ (ev'.op = "availabilitySettled"
            /\ \E m \in Taken : m.src = "refetch" /\ m.stage = "resp" /\ m.status = 200) =>
           \E m \in Taken : personalUnavailability' = m.body ]_vars

\* C12: when a persistence request of a drag-range has failed, the client, on
\* settling it, raises nothing (the page stays live) and sends a fetch of the
\* identity's Availability set, whose answer replaces the local set.
C12_DragRefetch ==
  [][ (ev'.op = "dragSettled" /\ \E m \in Taken : m.src = "drag" /\ HasFailed(m)) =>
        /\ ui' = "live"
        /\ \E m \in Taken, r \in Sent :
              r.kind = "getAvail" /\ r.stage = "req" /\ r.pid = m.pid ]_vars

\* C13: once a toggle or range persistence request has failed, with no gesture
\* after it and the store reachable from then on, the local set comes to equal
\* the participant's marks in the store.  With no gesture the exchanges in
\* flight only run down, and when none is left nothing happens any more: in
\* that state the two sets are equal.
C13_Convergence ==
  (hist.watch = "failed" /\ net = EmptyBag /\ batches = {} /\ ui = "live") =>
     personalUnavailability = DatesOf(availability, currentUser)

-----------------------------------------------------------------------------
(* Login.  A step of the login handler takes the request (or the handler   *)
(* suspended at its INSERT) out of flight and puts what follows in flight. *)

\* Two names that are one displayLabel: equal when letter case is ignored.
SameLabel(a, b) == Lower(a) = Lower(b)
Known(name) == { u \in people : SameLabel(u.name, name) }
Complete(m) == m.name # "" /\ m.passcode # ""
Answered(r, status) == r.kind = "login" /\ r.stage = "resp" /\ r.status = status

\* C14: when the login handler comes to create the Identity for a name that
\* matches no Identity, with a non-empty secret, it adds exactly one record,
\* holding the given name and secret, and answers 200 with that Identity.
C14_FirstLogin ==
  [][ ev'.op = "loginInsert" =>
        \A m \in Taken :
           (Complete(m) /\ Known(m.name) = {}) =>
              /\ people' = people \cup {[id |-> m.pid, name |-> m.name,
                                         passcode |-> m.passcode]}
              /\ Cardinality(people') = Cardinality(people) + 1
              /\ Sent # {}
              /\ \A r \in Sent : /\ Answered(r, 200)
                                 /\ r.identities = {[id |-> m.pid, name |-> m.name]} ]_vars

\* C15: a login whose name is the label of an Identity, letter case ignored,
\* and whose secret is that Identity's stored secret is answered 200 with that
\* Identity, and the Identity Store is unchanged.
C15_ReturningLogin ==
  [][ ev'.op = "login" =>
        \A m \in Taken :
           (Complete(m) /\ \E u \in Known(m.name) : u.passcode = m.passcode) =>
              /\ Sent # {}
              /\ \A r \in Sent :
                    /\ Answered(r, 200)
                    /\ \E u \in Known(m.name) :
                          /\ u.passcode = m.passcode
                          /\ r.identities = {[id |-> u.id, name |-> u.name]}
              /\ people' = people ]_vars

\* C16: a login whose name is the label of an Identity and whose secret is not
\* the stored secret of any Identity with that label is answered 401, and the
\* Identity Store and the Availability Store are unchanged.
C16_WrongSecret ==
  [][ ev'.op = "login" =>
        \A m \in Taken :
           (Complete(m) /\ Known(m.name) # {}
              /\ \A u \in Known(m.name) : u.passcode # m.passcode) =>
              /\ Sent # {}
              /\ \A r \in Sent : Answered(r, 401) /\ r.error = "Incorrect PIN"
                                 /\ r.identities = {}
              /\ people' = people /\ availability' = availability ]_vars

\* "Jan" with the secret 0000 has been answered 401; Jan's secret is 1234.
C16_Witness ==
  /\ ev.op = "login"
  /\ \E r \in BagToSet(net) : Answered(r, 401) /\ r.name = "Jan" /\ r.passcode = "0000"
  /\ \E u \in people : u.name = "Jan" /\ u.passcode = "1234"

\* C17: a login request with an empty or missing name or secret is answered 400
\* and changes neither store; the login form submitted with an empty field
\* sends nothing and changes nothing.
C17_MissingField ==
  [][ /\ ev'.op = "login" =>
           \A m \in Taken :
              ~Complete(m) =>
                 /\ Sent # {}
                 /\ \A r \in Sent : Answered(r, 400) /\ r.identities = {}
                 /\ people' = people /\ availability' = availability
      /\ (ev'.op = "handleLogin" /\ (ev'.name = "" \/ ev'.pin = "")) =>
           /\ net' = net /\ currentUser' = currentUser
           /\ people' = people /\ availability' = availability ]_vars

\* A request with a name and no secret has been answered 400.
C17_Witness ==
  /\ ev.op = "login"
  /\ \E r \in BagToSet(net) : Answered(r, 400) /\ r.name = "Tom" /\ r.passcode = ""
  /\ people = SEED_PEOPLE

\* C18: however first-time logins for one displayLabel interleave, the Identity
\* Store never holds two Identities with that label, letter case ignored.
C18_OneIdentityPerLabel ==
  \A u, v \in people : SameLabel(u.name, v.name) => u = v

\* C19: no response that carries Identity data (the list of all identities, the
\* answer to a returning login, the answer to a first login) carries a secret.
C19_NoSecretInResponse ==
  \A r \in BagToSet(net) :
     r.stage = "resp" => \A u \in r.identities : "passcode" \notin DOMAIN u

\* C20: every step of the server that inserts or deletes a mark of participant p
\* handles a request sent by a client logged in as p, and every persistence
\* request the browser sends is for the identity it is logged in as.
C20_OwnMarksOnly ==
  [][ /\ (ev'.op = "postAvailability" /\ availability' # availability) =>
           \A m \in Taken : m.auth = m.pid
      /\ \A r \in Sent :
           (r.kind = "postAvail" /\ r.stage = "req" /\ r.src # "other") =>
              (currentUser # NoUser /\ r.pid = currentUser) ]_vars

-----------------------------------------------------------------------------
(* Removals.  A removal is the exchange of a DELETE /api/people/:id; it has *)
(* reported success or failure once its response is sent.                  *)

IsRemoval(m) == m.kind = "deletePerson"
Reported(r, ok) ==
  IsRemoval(r) /\ r.stage = "resp" /\ (IF ok THEN r.status = 200 ELSE r.status # 200)
Referenced(table) == { row[1] : row \in DOMAIN table }

\* C21: the handler of a removal of X first deletes the marks of X and leaves
\* the Identity Store alone; a failure of that statement is answered 500 with
\* both stores as they were, and the exchange never comes to the second
\* statement; an Identity X leaves the Identity Store only in a step that takes
\* a removal of X whose first statement has succeeded.
C21_MarksThenIdentity ==
  [][ /\ \A m \in Taken :
           (IsRemoval(m) /\ m.stage = "req") =>
              /\ people' = people
              /\ Sent # {}
              /\ \A r \in Sent :
                    \/ r.stage = "deleting" /\ DatesOf(availability', m.pid) = {}
                    \/ Reported(r, FALSE) /\ availability' = availability
      /\ \A id \in PeopleIds(people) \ PeopleIds(people') :
           \E m \in Taken : IsRemoval(m) /\ m.stage = "deleting" /\ m.pid = id ]_vars

\* The removal of a participant who had a mark has succeeded: the mark went
\* with the first statement, the Identity with the second.
C21_Witness ==
  /\ ev.op = "deletePerson" /\ ev.had # {}
  /\ \E r \in BagToSet(net) : Reported(r, TRUE) /\ r.pid = ev.pid
  /\ ev.pid \notin PeopleIds(people)

\* C22: when a removal of X reports success, no row of the Availability Store
\* refers to X and no Identity has the id X; as long as no Identity has the id
\* X no row refers to X, whatever is written for X meanwhile, and no answer to
\* a fetch of all marks has an entry for X.
C22_CascadeDelete ==
  [][ /\ \A r \in Sent :
           Reported(r, TRUE) =>
              r.pid \notin PeopleIds(people') /\ DatesOf(availability', r.pid) = {}
      /\ \A x \in RemovalIds \cup SeedIds :
           x \notin PeopleIds(people') => DatesOf(availability', x) = {}
      /\ \A r \in Sent :
           (r.kind = "getAll" /\ r.stage = "resp" /\ r.status = 200) =>
              \A row \in r.body : row[1] \in PeopleIds(people) ]_vars

\* Participant 1 has been removed, and a mark written for 1 after that has
\* been refused.
C22_Witness ==
  /\ \E r \in BagToSet(net) : Reported(r, TRUE) /\ r.pid = 1
  /\ \E r \in BagToSet(net) :
        /\ r.kind = "postAvail" /\ r.pid = 1 /\ ~r.available
        /\ r.stage = "resp" /\ r.status = 500
  /\ 1 \notin PeopleIds(people) /\ DatesOf(availability, 1) = {}

\* C23: when a removal of X reports failure, the Identity Store is as it was
\* and every mark of X that the handler has deleted is in the Availability
\* Store.
C23_FailureChangesNothing ==
  [][ \A r \in Sent :
        Reported(r, FALSE) =>
           \A m \in Taken :
              IsRemoval(m) =>
                 people' = people /\ m.body \subseteq DatesOf(availability', m.pid) ]_vars

\* C24: every row of the Availability Store refers to an Identity of the
\* Identity Store.
C24_ReferentialIntegrity == Referenced(availability) \subseteq PeopleIds(people)

\* A removal was refused: between its two statements a mark was written for
\* the participant, and the foreign key kept the Identity.
C24_Witness ==
  /\ ev.op = "deletePerson"
  /\ \E r \in BagToSet(net) :
        /\ Reported(r, FALSE) /\ r.error = "ConstraintViolation" /\ r.pid = ev.pid
        /\ DatesOf(availability, r.pid) # {} /\ r.pid \in PeopleIds(people)

\* C25: the browser sends the DELETE for an identity only in the step of
\* handleDeletePerson for that identity in which window.confirm returned true;
\* when it returned false the step sends nothing and changes neither the
\* stores nor the lists of people and of marks the admin view holds.
C25_ConfirmedOnly ==
  [][ /\ \A r \in Sent :
           (IsRemoval(r) /\ r.stage = "req" /\ r.src # "other") =>
              ev'.op = "handleDeletePerson" /\ ev'.confirmed /\ ev'.id = r.pid
      /\ (ev'.op = "handleDeletePerson" /\ ~ev'.confirmed) =>
           /\ net' = net
           /\ people' = people /\ availability' = availability
           /\ peopleList' = peopleList /\ allUnavailability' = allUnavailability ]_vars

\* The removal of participant 1 was declined in the admin view: nothing is in
\* flight and the participant is in the store and in the list.
C25_Witness ==
  /\ ev.op = "handleDeletePerson" /\ ~ev.confirmed /\ ev.id = 1
  /\ net = EmptyBag
  /\ 1 \in PeopleIds(people) /\ <<1, 0>> \in peopleList

-----------------------------------------------------------------------------
(* The highlight.  The known identities are those of the list of people    *)
(* the admin view holds; an identity has a date when the marks the view    *)
(* holds have the pair of its id and the date.                             *)

HasDate(p, dStr) == <<p[1], dStr>> \in allUnavailability

\* C26: a day rendered in the admin view in mode none is not flagged; in mode
\* any it is flagged if and only if some known identity has the date.
C26_NoneAndAny ==
  [][ ev'.op = "renderDay" =>
        /\ viewConfig.conflictMode = "none" => ~ev'.isConflict
        /\ viewConfig.conflictMode = "any" =>
             (ev'.isConflict <=> \E p \in peopleList : HasDate(p, ev'.date)) ]_vars

\* Mode any: two of the three known identities have the date, the third has
\* no mark, and the date is flagged.
C26_Witness ==
  /\ ev.op = "renderDay" /\ viewConfig.conflictMode = "any" /\ ev.isConflict
  /\ peopleList = { <<p, 0>> : p \in ConflictIds }
  /\ allUnavailability = { <<1, ev.date>>, <<2, ev.date>> }

\* C27: a day rendered in the admin view in mode all is flagged if and only if
\* there is a known identity and every known identity has the date.
C27_All ==
  [][ (ev'.op = "renderDay" /\ viewConfig.conflictMode = "all") =>
        (ev'.isConflict <=>
           /\ peopleList # {}
           /\ \A p \in peopleList : HasDate(p, ev'.date)) ]_vars

\* Mode all: no identity is known, the view holds marks of the date, and the
\* date is not flagged.
C27_Witness ==
  /\ ev.op = "renderDay" /\ viewConfig.conflictMode = "all" /\ ~ev.isConflict
  /\ peopleList = {}
  /\ <<1, ev.date>> \in allUnavailability

-----------------------------------------------------------------------------
\* C28: when the login of the browser is answered with an error status (400,
\* 401 or 500), the step that receives the answer leaves the browser without
\* an identity, none current and none saved, leaves the local set of dates as
\* it was, and shows the error message of the answer.
C28_FailedLogin ==
  [][ ev'.op = "loginSettled" =>
        \A m \in Taken :
           (m.stage = "resp" /\ m.status # 200) =>
              /\ currentUser' = NoUser /\ savedUser' = NoUser
              /\ personalUnavailability' = personalUnavailability
              /\ m.error # NoError /\ loginError' = m.error ]_vars

\* The login of "Jan" with a wrong secret has been answered: the form shows
\* "Incorrect PIN" and nobody is logged in.
C28_Witness ==
  /\ ev.op = "loginSettled" /\ loginError = "Incorrect PIN"
  /\ currentUser = NoUser /\ savedUser = NoUser /\ ~isLoggingIn

-----------------------------------------------------------------------------
(* The store under persistence requests.  A request is applied when the    *)
(* handler answers 200.                                                    *)

Applied(e) == e.op = "postAvailability" /\ e.resp.status = 200
PairOf(e) == <<e.resp.pid, e.resp.date>>

\* C29: a request applied for a pair leaves the pair present (one row) when it
\* has available = false and absent when it has available = true, and the
\* presence of a pair changes in no step but the application of a request for
\* that pair; so the pair is present exactly when the request applied last for
\* it had available = false, whatever the order the requests reach the store in.
C29_LastRequestWins ==
  [][ /\ Applied(ev') =>
           Count(availability', PairOf(ev')) = IF ev'.resp.available THEN 0 ELSE 1
      /\ \A row \in OtherIds \X Dates :
           Count(availability', row) # Count(availability, row) =>
              Applied(ev') /\ PairOf(ev') = row ]_vars

\* Two requests for one pair that was absent: the one with available = false
\* was applied first, the one with available = true last, and the pair is
\* absent.
C29_Witness ==
  /\ Applied(ev) /\ ev.resp.available /\ ev.had = 1
  /\ \E r \in BagToSet(net) :
        /\ r.kind = "postAvail" /\ r.stage = "resp" /\ r.status = 200
        /\ ~r.available /\ <<r.pid, r.date>> = PairOf(ev)
  /\ PairOf(ev) \notin SeedRows
  /\ Count(availability, PairOf(ev)) = 0

\* The store after the handler has applied request m to it.
After(table, ppl, m) == postAvailability(table, ppl, m, TRUE).table

Commute(table, ppl) ==
  \A p \in OtherIds, d1, d2 \in Dates, a1, a2 \in BOOLEAN :
     d1 # d2 =>
        LET m1 == Msg("postAvail", "other", p, d1, a1)
            m2 == Msg("postAvail", "other", p, d2, a2)
        IN  After(After(table, ppl, m1), ppl, m2) = After(After(table, ppl, m2), ppl, m1)

\* C30: a step of the handler for (p, d) leaves the Identity Store and the
\* count of every pair other than (p, d) as they were; and applied to the
\* store the handler finds, two requests for different dates of one
\* participant leave the same store in either order.
C30_Frame ==
  [][ ev'.op = "postAvailability" =>
        /\ people' = people
        /\ \A row \in DOMAIN availability \cup DOMAIN availability' :
              row # PairOf(ev') => Count(availability', row) = Count(availability, row)
        /\ Commute(availability, people) ]_vars

\* A request has added a pair for a participant who has another pair, and the
\* other pair is there as before.
C30_Witness ==
  /\ Applied(ev) /\ ~ev.resp.available /\ ev.had = 0
  /\ Count(availability, PairOf(ev)) = 1
  /\ \E d \in Dates : d # ev.resp.date /\ Count(availability, <<ev.resp.pid, d>>) = 1

-----------------------------------------------------------------------------
\* C31: the id the login handler gives a new Identity is the id of no Identity
\* of the store at the time of its INSERT, so the INSERT of a first login is
\* never refused while the store is reachable; and no two Identities of the
\* store share an id.
C31_FreshId ==
  [][ /\ ev'.op = "loginInsert" =>
           \A m \in Taken : m.pid \notin PeopleIds(people)
      /\ \A u, v \in people' : u.id = v.id => u = v ]_vars

\* C37: while nobody is logged in the local set is empty, and an answer to a
\* fetch of Availability that replaces the local set is an answer for the
\* identity that is logged in.
C37_OwnDatesOnly ==
  [][ /\ currentUser' = NoUser => personalUnavailability' = {}
      /\ (ev'.op = "availabilitySettled"
            /\ personalUnavailability' # personalUnavailability) =>
           \A m \in Taken : m.pid = currentUser' ]_vars

\* C38: the local set is a set of dates of the calendar in every state.
C38_ListOfDates == personalUnavailability \subseteq Dates

\* C39: a run of finalizeDrag that ends, at once or when its requests have
\* settled, whether they succeeded or failed, leaves the anchors (none, none).
C39_DragReset ==
  [][ (\/ ev'.op = "finalizeDrag" /\ batches' = batches
       \/ ev'.op = "dragSettled" /\ batches' # batches) => drag' = NoDrag ]_vars

-----------------------------------------------------------------------------
\* A request of this browser for the list of all identities or for the marks
\* of all identities.
ReadsAll(r) == r.kind \in {"getPeople", "getAll"} /\ r.stage = "req" /\ r.src # "other"

\* C33: the browser sends a request for the list of all identities or for all
\* marks only in a step that leaves it in the admin view; its mode becomes
\* admin only in a step of handleAdminLogin with the password "Dominic"; a
\* step of handleAdminLogin with another password leaves the mode as it was.
C33_AdminOnly ==
  [][ /\ \A r \in Sent : ReadsAll(r) => mode' = "admin"
      /\ (mode' = "admin" /\ mode # "admin") =>
           ev'.op = "handleAdminLogin" /\ ev'.adminPassword = "Dominic"
      /\ (ev'.op = "handleAdminLogin" /\ ev'.adminPassword # "Dominic") =>
           mode' = mode ]_vars

-----------------------------------------------------------------------------
\* The browser shows the personal view of an authenticated identity.
InPersonal(u, m, user) == u = "live" /\ m = "personal" /\ user # NoUser

\* C34: a step that brings the browser into the personal view of an
\* authenticated identity (the first render with a saved identity, the answer
\* to a login, the return from the admin view) sends a fetch of the
\* Availability of that identity; the server answers such a fetch with the
\* dates the store holds for the identity, and the step that receives the
\* answer makes the local set exactly those dates; a step that brings the
\* browser into the admin view sends a fetch of all marks.
C34_Refetch ==
  [][ /\ (InPersonal(ui', mode', currentUser') /\ ~InPersonal(ui, mode, currentUser)) =>
           \E r \in Sent :
              r.kind = "getAvail" /\ r.stage = "req" /\ r.pid = currentUser'
      /\ (mode' = "admin" /\ mode # "admin") =>
           \E r \in Sent : r.kind = "getAll" /\ r.stage = "req"
      /\ ev'.op = "getAvailability" =>
           \A r \in Sent : r.status = 200 => r.body = DatesOf(availability, r.pid)
      /\ ev'.op = "availabilitySettled" =>
           \A m \in Taken :
              (m.stage = "resp" /\ m.status = 200) => personalUnavailability' = m.body ]_vars

\* The answer to the login of "jan" has arrived and the fetch of participant
\* 1's dates it sent has been answered and received: the local set is the
\* store's.
C34_Witness ==
  /\ ev.op = "availabilitySettled" /\ InPersonal(ui, mode, currentUser)
  /\ savedUser = currentUser
  /\ personalUnavailability = DatesOf(availability, currentUser)
  /\ personalUnavailability # {}

-----------------------------------------------------------------------------
\* The mouseup of a click on a cell, by an authenticated participant in the
\* personal view.
MouseUpOfClick(e) == e.op = "finalizeDrag" /\ e.kind = "click"
FlipsOnce(dStr) ==
  /\ personalUnavailability' = toggleLocal(personalUnavailability, dStr)
  /\ SentCount = 1
  /\ \A r \in Sent : IsRequest(r, dStr, dStr \in personalUnavailability)

-----------------------------------------------------------------------------
\* Nothing is in flight: every request sent was answered and its answer read.
Quiescent == net = EmptyBag /\ batches = {}

\* C36: a participant alone with the store, whose requests all succeed and
\* are applied in the order of their sending, shows, whenever nothing is in
\* flight, the dates the store holds for them.
C36_QuiescentConsistency ==
  (Quiescent /\ InPersonal(ui, mode, currentUser)) =>
     personalUnavailability = DatesOf(availability, currentUser)

-----------------------------------------------------------------------------
\* The handlers suspended on the run of initDb.
Waiting(bag) == { m \in BagToSet(bag) : m.stage = "wait" }
\* The handler of the request m has been suspended by the step.
NowWaiting(m) ==
  LET w == [m EXCEPT !.stage = "wait"]
  IN  CopiesIn(w, net') = CopiesIn(w, net) + 1
\* The exchange m, answered with status 500.
FailedWith500(m, bag) ==
  \E r \in BagToSet(bag) :
     /\ r.stage = "resp" /\ r.status = 500
     /\ [r EXCEPT !.stage = "wait", !.status = 0, !.error = NoError, !.body = {}] = m

\* C40: a run of initDb is started only when the promise is null, so no run
\* starts while one is in progress or after one has succeeded; a request that
\* arrives during a run starts none and waits on it; a resolved promise stays
\* resolved as long as the process lives; a failed run answers every waiting
\* request with an error and leaves the promise null, and the request that
\* arrives then starts a run.
C40_SingleFlight ==
  [][ /\ (ev'.op = "ensureDb" /\ ev'.starts) => dbInitPromise = "null"
      /\ (ev'.op = "ensureDb" /\ dbInitPromise = "pending") =>
           /\ ~ev'.starts /\ dbInitPromise' = "pending"
           /\ Taken # {}
           /\ \A m \in Taken : m.stage = "req" /\ NowWaiting(m)
      /\ (ev'.op = "ensureDb" /\ dbInitPromise = "null") =>
           ev'.starts /\ dbInitPromise' = "pending"
      /\ dbInitPromise = "resolved" =>
           /\ ev'.op \notin {"ensureDb", "initDb"}
           /\ dbInitPromise' = "resolved" \/ ev'.op = "coldStart"
      /\ ev'.op = "initDb" =>
           /\ dbInitPromise = "pending" /\ Waiting(net') = {}
           /\ ev'.ok => dbInitPromise' = "resolved"
           /\ ~ev'.ok => /\ dbInitPromise' = "null"
                         /\ \A m \in Waiting(net) : FailedWith500(m, net')
                         /\ BagCardinality(net') = BagCardinality(net) ]_vars

\* A run has failed with two requests waiting on it: both are answered with
\* an error and the promise is null again.
C40_Witness ==
  /\ ev.op = "initDb" /\ ~ev.ok /\ Cardinality(ev.waiting) = 2
  /\ dbInitPromise = "null"
  /\ \A m \in ev.waiting : FailedWith500(m, net)

-----------------------------------------------------------------------------
\* C32: an Identity comes into the store only by the insert of a first login
\* and leaves it only by the removal handler; so one that was removed is
\* absent until a login registers it again, whatever else runs, database
\* initialisation included.
C32_LoginAndRemovalOnly ==
  [][ /\ PeopleIds(people') \ PeopleIds(people) # {} => ev'.op = "loginInsert"
      /\ PeopleIds(people) \ PeopleIds(people') # {} => ev'.op = "deletePerson" ]_vars

====
